---- MODULE Spec2Model ----
(***************************************************************************)
(* Edition generation pipeline of ai-feed-digest (scripts/build-edition.ts, *)
(* src/summarise-with-oc.ts and src/oc-client.ts).  The specifications     *)
(* share the variables; each leaves the variables of the others untouched. *)
(*   SpecIngest     feed fetching and pickFreshItems                       *)
(*   SpecHydrate    hydrateArticleTexts (SpecHydrateFair: with fairness)   *)
(*   SpecSummarise  summariseStories / runPool / summariseWithOC           *)
(*   SpecOrder      the same with late answers and the thematic order      *)
(*   SpecBackoff    the delays of summariseWithOC                          *)
(*   SpecCaps       the hydration caps read from the environment           *)
(*   SpecParse      parseOpenCodeOutput and fallbackSummarise              *)
(*   SpecClient     ensureClient and its callers                           *)
(*   SpecPool       runPool                                                *)
(*   Spec           main                                                   *)
(***************************************************************************)
EXTENDS Integers, Sequences, FiniteSets, TLC

\* ------------------------------------------------------------------ bounds
MaxStories == 3
MaxHosts == 2
MaxG == 2
MaxH == 2
MaxSumStories == 3
MaxConc == 2
MaxTotalAttempts == 6
MaxOrderStories == 2
MaxOrderAttempts == 3
MaxPending == 5
PriorHorizon == 4
MaxItems == 2
MaxPerFeed == 2
MaxFeeds == 2
MaxFeedConc == 2

Hosts == 1..MaxHosts
\* Positions of the feeds in feeds.yml, and the article URLs they may carry.
Feeds == {1, 2}
Urls == {"u1", "u2"}
\* Values of the environment variable SUMMARY_RETRIES ("unset": not set), and
\* Number(v) of those that are finite numbers.
SummaryRetriesEnv == {"unset", "0", "2"}
NumberOf == ("0" :> 0) @@ ("2" :> 2) @@ ("5" :> 5)

VARIABLES
  \* hydrateArticleTexts
  hStories,         \* the stories argument: story index -> host of its URL
  hCapG,            \* HYDRATE_CONCURRENCY
  hCapH,            \* HYDRATE_PER_DOMAIN_CONCURRENCY
  hPhase,           \* "idle" (not called), "running" (promise pending), "resolved"
  hQueue,           \* queue: story indices not yet dispatched
  perDomainActive,  \* host -> counter
  globalActive,
  hCompleted,       \* completed
  hInFlight,        \* stories whose resolveItemText promise is pending
  hDispatchCount,   \* story -> number of times it was dispatched
  hText,            \* story.text: "unset", "article", "embedded" or "" (empty)
  hFetch            \* story -> how its resolveItemText ended (history): "none",
                    \* "not_needed", "fetched", "failed" or "raised"

VARIABLES
  \* summariseStories / runPool / summariseWithOC
  sStories,          \* the stories argument: story index -> [feed, url]
  sConc,             \* SUMMARY_CONCURRENCY
  sRetriesEnv,       \* process.env.SUMMARY_RETRIES
  sPhase,            \* "idle", "running", "done" (returned), "threw", or "synthesis"
                     \* (main has ordered the list and enters the briefing loop)
  sCursor,           \* runPool's cursor: number of stories handed to a pump
  sActive,           \* stories whose worker is running (awaiting summariseWithOC)
  sAttempt,          \* story -> summariseWithOC's attempt (0 outside the call)
  sPc,               \* story -> "idle", "request", "backoff" or "returned"
  sLastRefusal,      \* story -> summariseWithOC's lastRefusal
  sResult,           \* story -> via of its SummaryResult: "none", "opencode", "fallback"
  narrativeStories,  \* the NarrativeItem list
  sReqs,             \* story -> requests issued by its running call (history)
  sFails,            \* story -> failed attempts of its running call (history)
  sPushed,           \* story -> NarrativeItems pushed for it (history)
  sBuckets,          \* feed -> the EditionItems of its bucket, in push order
  summaryMetrics,    \* counter name -> count (process-scoped)
  sSeen,             \* the seen argument: the in-memory Seen-Set (fingerprints)
  sSeenLoaded,       \* the Seen-Set as it was when summariseStories was called (history)
  sAbandoned,        \* requests whose withTimeout timer fired and that the service
                     \* has not answered yet
  sThematic          \* [on: config.thematic_order, score: feed -> best tag priority],
                     \* as read by main after summariseStories (history)

VARIABLES
  \* main
  pc,               \* "load" (main begins), "start" (ingestion is over), "hydrate",
                    \* "warmup", "summarise", "briefing", "accept", "returned"
                    \* (main returned) or "exited" (process.exit)
  nPending,         \* pendingStories.length after ingestion
  priorEditions,    \* d such that an edition exists for the date d days before
  cfgTargetWords,   \* whether config.digest.target_words is defined
  timelineBadDate,  \* whether a story has a publishedAt that does not parse
  hydrated,         \* hydrateArticleTexts has run
  nSummaries,       \* stories that have a SummaryResult
  attempt,          \* the briefing loop's attempt
  genAttempts,      \* calls of generateBriefingDocument so far (history)
  lastCandidate,    \* NoDraft (null) or a draft
  briefing,         \* NoDraft (null) or the accepted draft
  qaResult,         \* [warnings, errors] of the last validation
  qaHistory,        \* the QA report of each attempt (history)
  qaFlags,
  mLog,             \* conditions reported on the console
  editionWrites,    \* writes of an edition file so far (history)
  editionFile,      \* NoFile or the content of the target edition file
  exitCode,         \* "none", "0" or "1"
  mThrown,          \* "none" or what raised the exception main caught
  seenFile,         \* data/seen.json: [kind: "absent", "list" or "corrupt", list]
  mSeen,            \* main's seen: the in-memory Seen-Set
  seenLoads,        \* reads of seen.json so far (history)
  seenWrites,       \* writes of seen.json so far (history)
  mWaits,           \* the external calls main has awaited: [call, timer] (history)
  mRequests,        \* the requests sent for the briefing: [attempt, kind, prompt,
                    \* taken] (history)
  draftHistory      \* the draft each generateBriefingDocument call returned (history)

mvars == <<pc, nPending, priorEditions, cfgTargetWords, timelineBadDate, hydrated,
           nSummaries, attempt, genAttempts, lastCandidate, briefing, qaResult,
           qaHistory, qaFlags, mLog, editionWrites, editionFile, exitCode, mThrown,
           seenFile, mSeen, seenLoads, seenWrites, mWaits, mRequests, draftHistory>>

VARIABLES
  \* main: ingestion (the feed pool and the building of pendingStories)
  fFeeds,               \* config.feeds: feed index -> [items, techFocus]; items
                        \* are what fetchFeedItems returns when the fetch succeeds
  fConc,                \* FEED_CONCURRENCY
  fSeen,                \* the loaded Seen-Set (fingerprints)
  forceRegeneration,    \* an edition file exists for the target date
  fMax,                 \* config.digest.max_articles_per_feed
  fPhase,               \* "idle", "running", "fetched" (runPool resolved), "built"
  fCursor,              \* runPool's cursor
  fActive,              \* feeds whose worker is awaiting fetchFeedItems
  feedResults,          \* feed index -> [set, freshItems, feedDead, rawCount]
  fPicked,              \* feed index -> what pickFreshItems returned (history)
  fOutcome,             \* feed index -> how its fetch ended (history)
  fOrder,               \* feed indexes in the order their workers completed (history)
  pendingStories,
  sources,              \* feed index of each EditionSource, in order
  totalCandidateItems,
  nonCuratedFiltered,
  marketingFiltered

fvars == <<fFeeds, fConc, fSeen, forceRegeneration, fMax, fPhase, fCursor, fActive,
           feedResults, fPicked, fOutcome, fOrder, pendingStories, sources,
           totalCandidateItems, nonCuratedFiltered, marketingFiltered>>

hvars == <<hStories, hCapG, hCapH, hPhase, hQueue, perDomainActive, globalActive,
           hCompleted, hInFlight, hDispatchCount, hText, hFetch>>

svars == <<sStories, sConc, sRetriesEnv, sPhase, sCursor, sActive, sAttempt, sPc,
           sLastRefusal, sResult, narrativeStories, sReqs, sFails, sPushed, sBuckets,
           summaryMetrics, sSeen, sSeenLoaded, sAbandoned, sThematic>>

VARIABLES
  \* summariseWithOC: one call, with the delays it takes
  bRetriesEnv,      \* process.env.SUMMARY_RETRIES
  bAttempt,         \* attempt
  bPc,              \* "request" (awaiting the service), "backoff" (awaiting the
                    \* timer) or "returned"
  bVia,             \* via of the result: "none", "opencode" or "fallback"
  bDelays           \* the timers set: [after: the attempt that failed, ms] (history)

bvars == <<bRetriesEnv, bAttempt, bPc, bVia, bDelays>>

VARIABLES
  \* the module constants of build-edition.ts read from the environment
  envHydrate,       \* process.env.HYDRATE_CONCURRENCY
  envPerDomain,     \* process.env.HYDRATE_PER_DOMAIN_CONCURRENCY
  capsLoaded,       \* the module has been evaluated
  capG,             \* HYDRATE_CONCURRENCY (0 before the module is evaluated)
  capH              \* HYDRATE_PER_DOMAIN_CONCURRENCY (0 before)

cvars == <<envHydrate, envPerDomain, capsLoaded, capG, capH>>

VARIABLES
  \* parseOpenCodeOutput / fallbackSummarise: one call
  parseCall,        \* "parse" (parseOpenCodeOutput) or "fallback" (fallbackSummarise)
  parseRaw,         \* raw: the lines of the response, each a sequence of symbols
  parseInput,       \* the SummariseInput of fallbackSummarise: [title, url, maxChars]
  parseDone,        \* the call has returned or thrown
  summary           \* [threw, abstract, bullets, translatedTitle]

pvars == <<parseCall, parseRaw, parseInput, parseDone, summary>>

VARIABLES
  \* oc-client.ts: ensureClient and its callers
  clientPromise,    \* 0 (null) or the position in promises of the cached promise
  promises,         \* the promises created: "pending", "client" or "null" (resolved
                    \* with a wrapper, or with null)
  callerPc,         \* each caller: "idle", "creator" (at the await of line 71),
                    \* "waiter" (awaiting the promise returned at line 34), "returned"
  callerPromise,    \* the promise each caller awaits (0: none)
  callerResult      \* what ensureClient gave each caller: "none", "client", "null"

evars == <<clientPromise, promises, callerPc, callerPromise, callerResult>>

VARIABLES
  \* runPool: one call
  poolSize,         \* items.length
  concurrency,      \* the argument, in halves (3 is 1.5)
  poolPhase,        \* "idle", "running" (at await Promise.all) or "resolved"
  cursor,           \* cursor
  runners,          \* per pump: the index whose worker it awaits, -1 once it broke
  workerCalls,      \* the indices worker was called with, in the order of the calls
  workerDone        \* the indices whose worker has finished

rvars == <<poolSize, concurrency, poolPhase, cursor, runners, workerCalls, workerDone>>

vars == <<hvars, svars, mvars, fvars, bvars, cvars, pvars, evars, rvars>>

\* What each specification leaves untouched.
hOther == <<svars, mvars, fvars, bvars, cvars, pvars, evars, rvars>>
sOther == <<hvars, mvars, fvars, bvars, cvars, pvars, evars, rvars>>
mOther == <<hvars, svars, fvars, bvars, cvars, pvars, evars, rvars>>
fOther == <<hvars, svars, mvars, bvars, cvars, pvars, evars, rvars>>
bOther == <<hvars, svars, mvars, fvars, cvars, pvars, evars, rvars>>
cOther == <<hvars, svars, mvars, fvars, bvars, pvars, evars, rvars>>
pOther == <<hvars, svars, mvars, fvars, bvars, cvars, evars, rvars>>
eOther == <<hvars, svars, mvars, fvars, bvars, cvars, pvars, rvars>>
rOther == <<hvars, svars, mvars, fvars, bvars, cvars, pvars, evars>>

\* ------------------------------------------------------------- helpers
Min(S) == CHOOSE x \in S : \A y \in S : x <= y
\* Math.min(a, b)
Least(a, b) == IF a < b THEN a ELSE b

RemoveAt(s, i) == [k \in 1..(Len(s) - 1) |-> IF k < i THEN s[k] ELSE s[k + 1]]

Range(s) == {s[k] : k \in 1..Len(s)}
SeqsUpTo(S, n) == UNION {[1..k -> S] : k \in 0..n}

\* ------------------------------------------------- hydrateArticleTexts
nextEligibleIndex_HostStarved(queue, pda, ga) ==
  IF ga >= hCapG THEN 0
  ELSE LET elig == {i \in 1..Len(queue) : pda[hStories[queue[i]]] < hCapH - 1}
       IN IF elig = {} THEN 0 ELSE Min(elig)

nextEligibleIndex_NoGlobalCap(queue, pda, ga) ==
  LET elig == {i \in 1..Len(queue) : pda[hStories[queue[i]]] < hCapH}
  IN IF elig = {} THEN 0 ELSE Min(elig)

nextEligibleIndex_HeadOnly(queue, pda, ga) ==
  IF ga >= hCapG THEN 0
  ELSE IF Len(queue) > 0 /\ pda[hStories[queue[1]]] < hCapH THEN 1 ELSE 0

\* Index (1-based, 0 for the code's -1) of the first queued story that may be
\* dispatched now.
nextEligibleIndex(queue, pda, ga) ==
  IF ga >= hCapG THEN 0
  ELSE LET elig == {i \in 1..Len(queue) : pda[hStories[queue[i]]] < hCapH}
       IN IF elig = {} THEN 0 ELSE Min(elig)

\* The while (true) loop of maybeDispatch, on the scheduler's state.
RECURSIVE maybeDispatch(_)
maybeDispatch(st) ==
  LET idx == nextEligibleIndex(st.queue, st.pda, st.ga)
  IN IF idx = 0 THEN st
     ELSE LET story == st.queue[idx]
              host == hStories[story]
          IN maybeDispatch([queue |-> RemoveAt(st.queue, idx),
                            pda |-> [st.pda EXCEPT ![host] = @ + 1],
                            ga |-> st.ga + 1,
                            inflight |-> st.inflight \cup {story},
                            disp |-> [st.disp EXCEPT ![story] = @ + 1]])

allCompleted_OffByOne(completed, n) == completed + 1 >= n

\* completed >= stories.length
allCompleted(completed, n) == completed >= n

HydrateVarsInit ==
  /\ hStories \in SeqsUpTo(Hosts, MaxStories)
  /\ hCapG \in 1..MaxG
  /\ hCapH \in 1..MaxH
  /\ hPhase = "idle"
  /\ hQueue = <<>>
  /\ perDomainActive = [h \in Hosts |-> 0]
  /\ globalActive = 0
  /\ hCompleted = 0
  /\ hInFlight = {}
  /\ hDispatchCount = [i \in 1..Len(hStories) |-> 0]
  /\ hText = [i \in 1..Len(hStories) |-> "unset"]
  /\ hFetch = [i \in 1..Len(hStories) |-> "none"]

\* The call: the early return on an empty list, else the first maybeDispatch().
HydrateStart ==
  /\ hPhase = "idle"
  /\ IF Len(hStories) = 0
       THEN /\ hPhase' = "resolved"
            /\ UNCHANGED <<hQueue, perDomainActive, globalActive, hInFlight, hDispatchCount>>
       ELSE LET st == maybeDispatch([queue |-> [i \in 1..Len(hStories) |-> i],
                                     pda |-> perDomainActive,
                                     ga |-> globalActive,
                                     inflight |-> hInFlight,
                                     disp |-> hDispatchCount])
            IN /\ hPhase' = "running"
               /\ hQueue' = st.queue
               /\ perDomainActive' = st.pda
               /\ globalActive' = st.ga
               /\ hInFlight' = st.inflight
               /\ hDispatchCount' = st.disp
  /\ UNCHANGED <<hStories, hCapG, hCapH, hCompleted, hText, hFetch>>
  /\ UNCHANGED hOther

\* What the page fetch of fetchArticleContent may do.
FetchBehaviours == {"html", "empty_html", "non_200", "wrong_type", "timeout", "network_error"}

\* fetchArticleContent: the page's text, or null for every other outcome.
fetchArticleContent(behaviour) == IF behaviour = "html" THEN "article" ELSE "null"

\* resolveItemText: the cleaned embedded content when it is long enough or the
\* item has no URL, else the fetched article, else the cleaned embedded content;
\* "rejected" when the text resolution itself raises.
resolveItemText(cleanedLong, hasUrl, behaviour, raises) ==
  IF raises THEN "rejected"
  ELSE IF cleanedLong THEN "embedded"
  ELSE IF ~hasUrl THEN "embedded"
  ELSE IF fetchArticleContent(behaviour) # "null" THEN "article"
  ELSE "embedded"

\* How the resolution of a story's text ended.
fetchClass(cleanedLong, behaviour, raises) ==
  IF raises THEN "raised"
  ELSE IF cleanedLong THEN "not_needed"
  ELSE IF fetchArticleContent(behaviour) # "null" THEN "fetched"
  ELSE "failed"

\* .catch(() => { story.text = story.text || ""; })
catchText(text) == IF text = "unset" THEN "" ELSE text

\* resolveItemText(story) settles: then / catch / finally of one dispatched story.
\* (A pending story always has a URL: pickFreshItems skips the items without.)
FetchSettled(story, cleanedLong, behaviour, raises) ==
  /\ story \in hInFlight
  /\ LET outcome == resolveItemText(cleanedLong, TRUE, behaviour, raises)
     IN hText' = [hText EXCEPT ![story] =
                    IF outcome = "rejected" THEN catchText(@) ELSE outcome]
  /\ hFetch' = [hFetch EXCEPT ![story] = fetchClass(cleanedLong, behaviour, raises)]
  /\ hCompleted' = hCompleted + 1
  /\ LET host == hStories[story]
         pda1 == [perDomainActive EXCEPT
                    ![host] = (IF @ = 0 THEN 1 ELSE @) - 1]
         ga1 == globalActive - 1
         inflight1 == hInFlight \ {story}
     IN IF allCompleted(hCompleted + 1, Len(hStories))
          THEN /\ hPhase' = "resolved"
               /\ perDomainActive' = pda1
               /\ globalActive' = ga1
               /\ hInFlight' = inflight1
               /\ UNCHANGED <<hQueue, hDispatchCount>>
          ELSE LET st == maybeDispatch([queue |-> hQueue, pda |-> pda1, ga |-> ga1,
                                        inflight |-> inflight1,
                                        disp |-> hDispatchCount])
               IN /\ hQueue' = st.queue
                  /\ perDomainActive' = st.pda
                  /\ globalActive' = st.ga
                  /\ hInFlight' = st.inflight
                  /\ hDispatchCount' = st.disp
                  /\ UNCHANGED hPhase
  /\ UNCHANGED <<hStories, hCapG, hCapH>>
  /\ UNCHANGED hOther

HydrateNext ==
  \/ HydrateStart
  \/ \E story \in 1..Len(hStories), cleanedLong \in BOOLEAN,
          behaviour \in FetchBehaviours, raises \in BOOLEAN :
       FetchSettled(story, cleanedLong, behaviour, raises)

\* The state before hydrateArticleTexts is called on an empty list.
HydrateVarsIdle ==
  /\ hStories = <<>>
  /\ hCapG = 1
  /\ hCapH = 1
  /\ hPhase = "idle"
  /\ hQueue = <<>>
  /\ perDomainActive = [h \in Hosts |-> 0]
  /\ globalActive = 0
  /\ hCompleted = 0
  /\ hInFlight = {}
  /\ hDispatchCount = <<>>
  /\ hText = <<>>
  /\ hFetch = <<>>

\* ---------------------------------------------------- summariseWithOC
\* requestCompletion: the text of the service's answer; a transport error or an
\* answer without text is caught and becomes null; a service that never answers
\* leaves the promise pending.
requestCompletion(behaviour) ==
  CASE behaviour \in {"text", "refusal", "unparsable"} -> behaviour
    [] behaviour \in {"empty", "rejection"} -> "null"
    [] behaviour = "silent" -> "pending"

\* withTimeout: a pending promise is rejected when the timer fires.
withTimeout(r) == IF r = "pending" THEN "timeout" ELSE r

\* withTimeout rejects its own promise and leaves the request as it is: the
\* requests still pending at the service once their timer has fired.
abandon(pending, r) == IF r = "pending" THEN pending + 1 ELSE pending

attemptOutcome_NoCatch(r) ==
  CASE r = "text" -> "success"
    [] r = "refusal" -> "refusal"
    [] r = "unparsable" -> "parse_fail"
    [] r = "null" -> "empty"
    [] r = "timeout" -> "throws"

\* The body of one iteration of the while loop, up to the backoff: how the
\* attempt ends.  isRefusal and parseOpenCodeOutput decide between "refusal",
\* "parse_fail" and "success"; a falsy text is "empty"; the catch makes a
\* rejection a "request_error".
attemptOutcome(r) ==
  CASE r = "text" -> "success"
    [] r = "refusal" -> "refusal"
    [] r = "unparsable" -> "parse_fail"
    [] r = "null" -> "empty"
    [] r = "timeout" -> "request_error"

\* The keys of summaryMetrics.
MetricNames == {"success", "success_after_retry", "parse_fail", "request_error",
                "refusal_fallback", "exhausted_fallback"}

\* incrementMetric(key), for each key of a sequence in turn.
RECURSIVE incrementMetrics(_, _)
incrementMetrics(metrics, keys) ==
  IF Len(keys) = 0 THEN metrics
  ELSE incrementMetrics([metrics EXCEPT ![Head(keys)] = @ + 1], Tail(keys))

attemptMetrics_RetryOnly(out, a) ==
  CASE out = "success" -> IF a > 1 THEN <<"success_after_retry">> ELSE <<"success">>
    [] out = "parse_fail" -> <<"parse_fail">>
    [] out = "request_error" -> <<"request_error">>
    [] OTHER -> <<>>

\* The counters an attempt increments inside the loop of summariseWithOC.
attemptMetrics(out, a) ==
  CASE out = "success" ->
         <<"success">> \o (IF a > 1 THEN <<"success_after_retry">> ELSE <<>>)
    [] out = "parse_fail" -> <<"parse_fail">>
    [] out = "request_error" -> <<"request_error">>
    [] OTHER -> <<>>

terminalMetric_Exhausted(lastRefusal) == "exhausted_fallback"

\* incrementMetric(lastRefusal ? 'refusal_fallback' : 'exhausted_fallback')
terminalMetric(lastRefusal) == IF lastRefusal THEN "refusal_fallback" ELSE "exhausted_fallback"

DefaultSummaryRetries == 3
MinSummaryRetries == 1
MaxSummaryRetries == 5

\* maxAttempts of summariseWithOC, from process.env.SUMMARY_RETRIES.
maxAttempts(env) ==
  IF env \notin DOMAIN NumberOf THEN DefaultSummaryRetries
  ELSE LET v == NumberOf[env]
           lo == IF v < MinSummaryRetries THEN MinSummaryRetries ELSE v
       IN IF lo > MaxSummaryRetries THEN MaxSummaryRetries ELSE lo

retryAllowed_OneMore(a, max) == a <= max

\* attempt < maxAttempts: the loop condition, and the guard of the backoff.
retryAllowed(a, max) == a < max

\* ------------------------------------------------- summariseStories
\* crypto.createHash("sha1").update(url).digest("hex")
fingerprintUrl(url) == <<"sha1", url>>

seenAdd_Replace(seen, fingerprint) == {fingerprint}

\* seen.add(fingerprint)
seenAdd(seen, fingerprint) == seen \cup {fingerprint}

\* orderMap.get(url): new Map(...) keeps the last index given for a key.
orderMap(url) ==
  CHOOSE i \in 1..Len(sStories) :
    /\ sStories[i].url = url
    /\ \A j \in 1..Len(sStories) : sStories[j].url = url => j <= i

InsertAt(s, k, x) ==
  [i \in 1..(Len(s) + 1) |-> IF i < k THEN s[i] ELSE IF i = k THEN x ELSE s[i - 1]]

\* Array.prototype.sort with the comparator orderMap(a.url) - orderMap(b.url):
\* a stable sort, items of equal key keep their relative order.
RECURSIVE sortByOrderMap(_)
sortByOrderMap(items) ==
  IF Len(items) = 0 THEN <<>>
  ELSE LET head == sortByOrderMap(SubSeq(items, 1, Len(items) - 1))
           x == items[Len(items)]
           after == {k \in 1..Len(head) : orderMap(head[k].url) > orderMap(x.url)}
       IN IF after = {} THEN Append(head, x) ELSE InsertAt(head, Min(after), x)


\* The final narrativeStories.sort(...) of summariseStories.
finalSort(items) == sortByOrderMap(items)

EditionItem_FirstUrl(i, via) == [url |-> sStories[1].url, via |-> via]

\* The NarrativeItem of a story: its feed, its URL and its summary.
\* The EditionItem pushed to the bucket of the story's feed.
EditionItem(i, via) == [url |-> sStories[i].url, via |-> via]

NarrativeItem(i, via) == [feed |-> sStories[i].feed, url |-> sStories[i].url, via |-> via]

\* The best tag priority of a feed: tagPriorityMap gives 0 to "news", 50 is the
\* score of a feed without (known) tags.
TagScores == {0, 50}
NoThematic == [on |-> FALSE, score |-> [f \in Feeds |-> 50]]

\* originalOrder.get(url): new Map(narrativeStories.map((s, i) => [s.url, i]))
\* keeps the last index given for a URL.
originalOrder(items, url) ==
  CHOOSE k \in 1..Len(items) :
    /\ items[k].url = url
    /\ \A j \in 1..Len(items) : items[j].url = url => j <= k

thematicLess_Reversed(a, b, score, items) ==
  \/ score[a.feed] < score[b.feed]
  \/ /\ score[a.feed] = score[b.feed]
     /\ originalOrder(items, b.url) < originalOrder(items, a.url)

\* The comparator of the thematic sort is negative: aScore - bScore when the
\* scores differ, originalOrder.get(a.url) - originalOrder.get(b.url) otherwise.
thematicLess(a, b, score, items) ==
  \/ score[a.feed] < score[b.feed]
  \/ /\ score[a.feed] = score[b.feed]
     /\ originalOrder(items, a.url) < originalOrder(items, b.url)

\* narrativeStories.sort(comparator): Array.prototype.sort is stable, items
\* the comparator holds equal keep their order.
stableSort(items, score) ==
  LET n == Len(items)
      rank(i) == 1 + Cardinality({j \in 1..n :
                        \/ thematicLess(items[j], items[i], score, items)
                        \/ (~thematicLess(items[i], items[j], score, items) /\ j < i)})
  IN [r \in 1..n |-> items[CHOOSE i \in 1..n : rank(i) = r]]

\* if (config.thematic_order) narrativeStories.sort(...)
thematicOrder(items, on, score) == IF on THEN stableSort(items, score) ELSE items

\* The state when summariseStories is called, for runs of at most `stories`
\* stories and `attempts` requests in all, with the Seen-Set loaded as one of
\* `seens`.
SummariseVarsFor(stories, attempts, seens) ==
  /\ sStories \in {s \in SeqsUpTo([feed : Feeds, url : Urls], stories) :
                     \A i, j \in 1..Len(s) : i < j => s[i].feed <= s[j].feed}
  /\ sConc \in 1..MaxConc
  /\ sRetriesEnv \in {env \in SummaryRetriesEnv :
                        Len(sStories) * maxAttempts(env) <= attempts}
  /\ sPhase = "idle"
  /\ sCursor = 0
  /\ sActive = {}
  /\ sAttempt = [i \in 1..Len(sStories) |-> 0]
  /\ sPc = [i \in 1..Len(sStories) |-> "idle"]
  /\ sLastRefusal = [i \in 1..Len(sStories) |-> FALSE]
  /\ sResult = [i \in 1..Len(sStories) |-> "none"]
  /\ narrativeStories = <<>>
  /\ sReqs = [i \in 1..Len(sStories) |-> 0]
  /\ sFails = [i \in 1..Len(sStories) |-> 0]
  /\ sPushed = [i \in 1..Len(sStories) |-> 0]
  /\ sBuckets = [f \in Feeds |-> <<>>]
  /\ summaryMetrics = [m \in MetricNames |-> 0]
  /\ sSeen \in seens
  /\ sSeenLoaded = sSeen
  /\ sAbandoned = 0
  /\ sThematic = NoThematic

SummariseVarsInit == SummariseVarsFor(MaxSumStories, MaxTotalAttempts, {{}})

\* The Seen-Set of a first run (empty) and of a forced regeneration (it holds the
\* fingerprint of a story of the run already).
OrderVarsInit ==
  SummariseVarsFor(MaxOrderStories, MaxOrderAttempts, {{}, {fingerprintUrl("u1")}})

SummariseVarsIdle ==
  /\ sStories = <<>>
  /\ sConc = 1
  /\ sRetriesEnv = "unset"
  /\ sPhase = "idle"
  /\ sCursor = 0
  /\ sActive = {}
  /\ sAttempt = <<>>
  /\ sPc = <<>>
  /\ sLastRefusal = <<>>
  /\ sResult = <<>>
  /\ narrativeStories = <<>>
  /\ sReqs = <<>>
  /\ sFails = <<>>
  /\ sPushed = <<>>
  /\ sBuckets = [f \in Feeds |-> <<>>]
  /\ summaryMetrics = [m \in MetricNames |-> 0]
  /\ sSeen = {}
  /\ sSeenLoaded = {}
  /\ sAbandoned = 0
  /\ sThematic = NoThematic

\* summariseStories is called: runPool starts min(limit, size) pumps, each takes
\* the next index and its worker issues the first request of summariseWithOC.
\* With no story runPool returns at once and the (empty) list is sorted.
SummariseStart ==
  /\ sPhase = "idle"
  /\ LET size == Len(sStories)
         limit == IF sConc < 1 THEN 1 ELSE sConc
         started == 1..(IF limit < size THEN limit ELSE size)
     IN /\ sPhase' = IF size = 0 THEN "done" ELSE "running"
        /\ sCursor' = Cardinality(started)
        /\ sActive' = started
        /\ sAttempt' = [i \in 1..size |-> IF i \in started THEN 1 ELSE 0]
        /\ sPc' = [i \in 1..size |-> IF i \in started THEN "request" ELSE "idle"]
        /\ sReqs' = [i \in 1..size |-> IF i \in started THEN 1 ELSE 0]
        /\ narrativeStories' = IF size = 0 THEN finalSort(narrativeStories)
                               ELSE narrativeStories
  /\ UNCHANGED <<sStories, sConc, sRetriesEnv, sLastRefusal, sResult, sFails, sPushed,
                 sBuckets, summaryMetrics, sSeen, sSeenLoaded, sAbandoned, sThematic>>
  /\ UNCHANGED sOther

\* summariseWithOC returned `via` for story i: the rest of the worker (the pushes),
\* then the pump takes the next index; when the last pump ends, Promise.all
\* resolves and summariseStories sorts the list and returns.
WorkerFinish(i, via) ==
  LET pushed == Append(narrativeStories, NarrativeItem(i, via))
      more == sCursor < Len(sStories)
      next == sCursor + 1
      active1 == (sActive \ {i}) \cup (IF more THEN {next} ELSE {})
  IN /\ sResult' = [sResult EXCEPT ![i] = via]
     /\ sPushed' = [sPushed EXCEPT ![i] = @ + 1]
     /\ sBuckets' = [sBuckets EXCEPT ![sStories[i].feed] = Append(@, EditionItem(i, via))]
     /\ sSeen' = seenAdd(sSeen, fingerprintUrl(sStories[i].url))
     /\ sCursor' = IF more THEN next ELSE sCursor
     /\ sActive' = active1
     /\ sAttempt' = IF more THEN [sAttempt EXCEPT ![i] = 0, ![next] = 1]
                    ELSE [sAttempt EXCEPT ![i] = 0]
     /\ sPc' = IF more THEN [sPc EXCEPT ![i] = "returned", ![next] = "request"]
               ELSE [sPc EXCEPT ![i] = "returned"]
     /\ sReqs' = IF more THEN [sReqs EXCEPT ![i] = 0, ![next] = 1]
                 ELSE [sReqs EXCEPT ![i] = 0]
     /\ sFails' = [sFails EXCEPT ![i] = 0]
     /\ sLastRefusal' = [sLastRefusal EXCEPT ![i] = FALSE]
     /\ IF active1 = {} /\ sPhase = "running"
          THEN /\ sPhase' = "done"
               /\ narrativeStories' = finalSort(pushed)
          ELSE /\ UNCHANGED sPhase
               /\ narrativeStories' = pushed

\* summariseWithOC threw for story i: the worker and its pump reject, Promise.all
\* rejects and summariseStories throws; the other pumps go on.
WorkerThrows(i) ==
  /\ sPhase' = "threw"
  /\ sActive' = sActive \ {i}
  /\ sPc' = [sPc EXCEPT ![i] = "returned"]
  /\ sAttempt' = [sAttempt EXCEPT ![i] = 0]
  /\ sReqs' = [sReqs EXCEPT ![i] = 0]
  /\ sFails' = [sFails EXCEPT ![i] = 0]
  /\ sLastRefusal' = [sLastRefusal EXCEPT ![i] = FALSE]
  /\ UNCHANGED <<sResult, sPushed, sBuckets, sCursor, narrativeStories, sSeen>>

\* The request of story i's current attempt settles with the service's behaviour.
AttemptSettles(i, behaviour) ==
  /\ i \in sActive
  /\ sPc[i] = "request"
  /\ LET out == attemptOutcome(withTimeout(requestCompletion(behaviour)))
         max == maxAttempts(sRetriesEnv)
         refused == sLastRefusal[i] \/ out = "refusal"
         counted == attemptMetrics(out, sAttempt[i])
                      \o (IF out \notin {"success", "throws"} /\ ~retryAllowed(sAttempt[i], max)
                            THEN <<terminalMetric(refused)>> ELSE <<>>)
     IN /\ summaryMetrics' = incrementMetrics(summaryMetrics, counted)
        /\ CASE out = "success" -> WorkerFinish(i, "opencode")
             [] out = "throws" -> WorkerThrows(i)
             [] OTHER ->
                  IF retryAllowed(sAttempt[i], max)
                    THEN /\ sPc' = [sPc EXCEPT ![i] = "backoff"]
                         /\ sLastRefusal' = [sLastRefusal EXCEPT ![i] = refused]
                         /\ sFails' = [sFails EXCEPT ![i] = @ + 1]
                         /\ UNCHANGED <<sPhase, sCursor, sActive, sAttempt, sResult,
                                        narrativeStories, sReqs, sPushed, sBuckets, sSeen>>
                    ELSE WorkerFinish(i, "fallback")
  /\ sAbandoned' = abandon(sAbandoned, requestCompletion(behaviour))
  /\ UNCHANGED <<sStories, sConc, sRetriesEnv, sSeenLoaded, sThematic>>
  /\ UNCHANGED sOther

\* The backoff timer of story i fires: the loop goes round, attempt++ and the
\* next request is issued.
BackoffElapsed(i) ==
  /\ i \in sActive
  /\ sPc[i] = "backoff"
  /\ sAttempt' = [sAttempt EXCEPT ![i] = @ + 1]
  /\ sReqs' = [sReqs EXCEPT ![i] = @ + 1]
  /\ sPc' = [sPc EXCEPT ![i] = "request"]
  /\ UNCHANGED <<sStories, sConc, sRetriesEnv, sPhase, sCursor, sActive, sLastRefusal,
                 sResult, narrativeStories, sFails, sPushed, sBuckets, summaryMetrics,
                 sSeen, sSeenLoaded, sAbandoned, sThematic>>
  /\ UNCHANGED sOther

\* main, from the return of summariseStories to the briefing loop: the optional
\* thematic reordering; narrativeStories is then what generateBriefingDocument
\* is given.
MainThematicOrder(on, score) ==
  /\ sPhase = "done"
  /\ Len(sStories) > 0
  /\ sPhase' = "synthesis"
  /\ sThematic' = [on |-> on, score |-> score]
  /\ narrativeStories' = thematicOrder(narrativeStories, on, score)
  /\ UNCHANGED <<sStories, sConc, sRetriesEnv, sCursor, sActive, sAttempt, sPc,
                 sLastRefusal, sResult, sReqs, sFails, sPushed, sBuckets, summaryMetrics,
                 sSeen, sSeenLoaded, sAbandoned>>
  /\ UNCHANGED sOther

ServiceBehaviours == {"text", "refusal", "unparsable", "empty", "rejection", "silent"}

SummariseNext ==
  \/ SummariseStart
  \/ \E i \in 1..Len(sStories), b \in ServiceBehaviours : AttemptSettles(i, b)
  \/ \E i \in 1..Len(sStories) : BackoffElapsed(i)

\* summariseStories, then main up to the briefing loop.
\* The service answers a request whose timer had fired; nothing awaits it.
LateAnswer ==
  /\ sAbandoned > 0
  /\ sAbandoned' = sAbandoned - 1
  /\ UNCHANGED <<sStories, sConc, sRetriesEnv, sPhase, sCursor, sActive, sAttempt, sPc,
                 sLastRefusal, sResult, narrativeStories, sReqs, sFails, sPushed, sBuckets,
                 summaryMetrics, sSeen, sSeenLoaded, sThematic>>
  /\ UNCHANGED sOther

OrderNext ==
  \/ SummariseNext
  \/ LateAnswer
  \/ \E on \in BOOLEAN, score \in [Feeds -> TagScores] :
       /\ (on \/ score = NoThematic.score)
       /\ MainThematicOrder(on, score)


\* ------------------------------------------------- parseOpenCodeOutput
\* A text is a sequence of symbols: "a", "b", "c" (a short word), "w" (a word
\* of LongWord letters), "_" (a space), ".", ";", ",", ":", "-", "1" (a digit),
\* "L" (one of the labels ABSTRACT, RESUME, ...) and "T" (TITLE or TITRE).
LongWord == 30
ClauseMinChars == 25

\* value.length
RECURSIVE chars(_)
chars(text) ==
  IF Len(text) = 0 THEN 0
  ELSE (IF Head(text) = "w" THEN LongWord ELSE 1) + chars(Tail(text))

\* The length of the run of symbols of `set` that starts at position k.
RECURSIVE runFrom(_, _, _)
runFrom(text, k, set) ==
  IF k <= Len(text) /\ text[k] \in set THEN 1 + runFrom(text, k + 1, set) ELSE 0

\* String.prototype.trim
trim(text) ==
  LET solid == {k \in 1..Len(text) : text[k] # "_"}
  IN IF solid = {} THEN <<>>
     ELSE SubSeq(text, Min(solid), CHOOSE k \in solid : \A j \in solid : j <= k)

\* text.slice(n): the text without its first n symbols.
dropFirst(text, n) == SubSeq(text, n + 1, Len(text))

\* The length of the match of /^(?:[-*•]|\d+\.)\s+/ (0: no match).
bulletPrefix(text) ==
  LET digits == runFrom(text, 1, {"1"})
      marker == IF Len(text) > 0 /\ text[1] = "-" THEN 1
                ELSE IF digits > 0 /\ digits < Len(text) /\ text[digits + 1] = "." THEN digits + 1
                ELSE 0
      spaces == runFrom(text, marker + 1, {"_"})
  IN IF marker > 0 /\ spaces > 0 THEN marker + spaces ELSE 0

\* The length of the match of /^(\*\*|\*)?\s*(WORD)\s*[:\-–—]\s*/i for the
\* words of `word` (0: no match); the test without the final \s* matches the
\* same lines.
labelPrefix(text, word) ==
  LET lead == runFrom(text, 1, {"_"})
      gap == runFrom(text, lead + 2, {"_"})
      mark == lead + 2 + gap
  IN IF lead < Len(text) /\ text[lead + 1] = word
          /\ mark <= Len(text) /\ text[mark] \in {":", "-"}
       THEN mark + runFrom(text, mark + 1, {"_"})
       ELSE 0

\* The length of the match of /^[0-9]+[\).:-]\s*/ (0: no match).
numberingPrefix(text) ==
  LET digits == runFrom(text, 1, {"1"})
  IN IF digits > 0 /\ digits < Len(text) /\ text[digits + 1] \in {".", ":", "-"}
       THEN digits + 1 + runFrom(text, digits + 2, {"_"})
       ELSE 0

\* The length of the separator that starts at position k (0: none), for
\* split(/;+/) ("semicolons"), split(/(?<=[\.!?])\s+/) ("sentences") and
\* split(/[;,:–—\-]\s+/) ("clauses").
separatorAt(text, k, rule) ==
  CASE rule = "semicolons" -> runFrom(text, k, {";"})
    [] rule = "sentences" ->
         IF k > 1 /\ text[k - 1] = "." THEN runFrom(text, k, {"_"}) ELSE 0
    [] rule = "clauses" ->
         IF text[k] \in {";", ",", ":", "-"} /\ runFrom(text, k + 1, {"_"}) > 0
           THEN 1 + runFrom(text, k + 1, {"_"}) ELSE 0

\* String.prototype.split: the pieces between the separators, empty ones too.
RECURSIVE splitFrom(_, _, _, _)
splitFrom(text, k, start, rule) ==
  IF k > Len(text) THEN <<SubSeq(text, start, Len(text))>>
  ELSE LET n == separatorAt(text, k, rule)
       IN IF n > 0
            THEN <<SubSeq(text, start, k - 1)>> \o splitFrom(text, k + n, k + n, rule)
            ELSE splitFrom(text, k + 1, start, rule)

split(text, rule) == splitFrom(text, 1, 1, rule)

\* lines.join(' ')
RECURSIVE join(_)
join(lines) ==
  IF Len(lines) = 0 THEN <<>>
  ELSE IF Len(lines) = 1 THEN lines[1]
  ELSE lines[1] \o <<"_">> \o join(Tail(lines))

\* lines.findIndex(test): the first index that passes (0: none).
firstIndex(passes) == IF passes = {} THEN 0 ELSE Min(passes)

nonEmpty_Always(text) == TRUE

\* `if (s)`, `segment.length > 0`, filter(Boolean): a text that is not empty.
nonEmpty(text) == Len(text) > 0

\* for (const x of candidates) { if (x is not empty and not in bullets)
\* bullets.push(x); if (bullets.length >= 3) break; }
RECURSIVE pushNew(_, _)
pushNew(bullets, candidates) ==
  IF Len(candidates) = 0 \/ Len(bullets) >= 3 THEN bullets
  ELSE LET x == Head(candidates)
           pushed == IF nonEmpty(x) /\ x \notin Range(bullets)
                       THEN Append(bullets, x) ELSE bullets
       IN pushNew(pushed, Tail(candidates))

\* The same loop over the segments of every residual line: the inner break
\* leaves the outer loop too.
RECURSIVE flatten(_)
flatten(lists) == IF Len(lists) = 0 THEN <<>> ELSE Head(lists) \o flatten(Tail(lists))

\* The generic lines of the padding.
Padding == <<<<"P", "1">>, <<"P", "2">>, <<"P", "3">>>>

\* while (bullets.length < 3) bullets.push(the line for bullets.length)
RECURSIVE pad(_)
pad(bullets) ==
  IF Len(bullets) >= 3 THEN bullets ELSE pad(Append(bullets, Padding[Len(bullets) + 1]))

Threw == [threw |-> TRUE, abstract |-> <<>>, bullets |-> <<>>, translatedTitle |-> <<>>]

\* Then(e, F) is F(x) for x the value of e: `x \in {e}` works e out once, where
\* a LET works its definition out at every use.
Then(e, F(_)) == CHOOSE r \in {F(x) : x \in {e}} : TRUE

\* raw.split("\n").map(trim).filter(line => line.length > 0), raw given as
\* its lines.
cleanLines(raw) ==
  SelectSeq([k \in 1..Len(raw) |-> trim(raw[k])], LAMBDA line : Len(line) > 0)

\* The TITLE line is spliced out of the lines and gives translatedTitle.
extractTitle(lines) ==
  LET titleIndex == firstIndex({k \in 1..Len(lines) : labelPrefix(lines[k], "T") > 0})
  IN IF titleIndex > 0
       THEN [translatedTitle |->
               trim(dropFirst(lines[titleIndex], labelPrefix(lines[titleIndex], "T"))),
             lines |-> RemoveAt(lines, titleIndex)]
       ELSE [translatedTitle |-> <<>>, lines |-> lines]

\* abstractLine: lines.splice(abstractIndex, 1)[0], or lines.shift().
extractAbstract(lines) ==
  LET abstractIndex == firstIndex({k \in 1..Len(lines) : labelPrefix(lines[k], "L") > 0})
      position == IF abstractIndex > 0 THEN abstractIndex ELSE 1
  IN IF Len(lines) = 0 THEN [abstractLine |-> <<>>, lines |-> lines]
     ELSE [abstractLine |-> lines[position], lines |-> RemoveAt(lines, position)]

\* abstract: the line without its label; when that is empty, the first line
\* that passes !/^[-*•]\s*/.test(line), spliced out of the lines.
resolveAbstract(abstractLine, lines) ==
  LET labelled == trim(dropFirst(abstractLine, labelPrefix(abstractLine, "L")))
      fallbackIndex == firstIndex({k \in 1..Len(lines) : lines[k][1] # "-"})
  IN IF ~nonEmpty(labelled) /\ fallbackIndex > 0
       THEN [abstract |-> lines[fallbackIndex], lines |-> RemoveAt(lines, fallbackIndex)]
       ELSE [abstract |-> labelled, lines |-> lines]

\* bulletCandidates, without their markers, the empty ones dropped.
markedBullets(lines) ==
  LET bulletCandidates == SelectSeq(lines, LAMBDA line : bulletPrefix(line) > 0)
  IN SelectSeq([k \in 1..Len(bulletCandidates) |->
                  trim(dropFirst(bulletCandidates[k], bulletPrefix(bulletCandidates[k])))],
               nonEmpty)

\* if (bullets.length === 0) and the joined lines hold a ";": their segments,
\* without numbering, the empty ones dropped.
semicolonBullets(lines, bullets) ==
  LET segments == split(join(lines), "semicolons")
  IN IF Len(bullets) = 0 /\ ";" \in Range(join(lines))
       THEN SelectSeq([k \in 1..Len(segments) |->
                         dropFirst(trim(segments[k]), numberingPrefix(trim(segments[k])))],
                      nonEmpty)
       ELSE bullets

\* if (bullets.length < 3): the sentences of the residual lines.
sentenceBullets(lines, bullets) ==
  LET residual == SelectSeq(lines, LAMBDA line : bulletPrefix(line) = 0)
  IN IF Len(bullets) < 3
       THEN pushNew(bullets,
                    flatten([k \in 1..Len(residual) |->
                               [j \in 1..Len(split(residual[k], "sentences")) |->
                                  trim(split(residual[k], "sentences")[j])]]))
       ELSE bullets

\* if (bullets.length < 3): the sentences of the abstract.
abstractBullets(abstract, bullets) ==
  LET parts == split(abstract, "sentences")
  IN IF Len(bullets) < 3
       THEN pushNew(bullets, SelectSeq([j \in 1..Len(parts) |-> trim(parts[j])], nonEmpty))
       ELSE bullets

\* if (bullets.length < 3): the clauses of the abstract, filtered before the
\* first push.
clauseBullets(abstract, bullets) ==
  LET parts == split(abstract, "clauses")
      clauseCandidates ==
        SelectSeq([j \in 1..Len(parts) |-> trim(parts[j])],
                  LAMBDA c : chars(c) > ClauseMinChars /\ c \notin Range(bullets))
  IN IF Len(bullets) < 3
       THEN bullets \o SubSeq(clauseCandidates, 1,
                              Least(3 - Len(bullets), Len(clauseCandidates)))
       ELSE bullets

\* parseOpenCodeOutput(raw), raw given as its lines.
parseOpenCodeOutput(raw) ==
  Then(cleanLines(raw), LAMBDA lines :
  Then(extractTitle(lines), LAMBDA title :
  Then(extractAbstract(title.lines), LAMBDA first :
  Then(resolveAbstract(first.abstractLine, first.lines), LAMBDA found :
  Then(markedBullets(found.lines), LAMBDA marked :
  Then(semicolonBullets(found.lines, marked), LAMBDA listed :
  Then(sentenceBullets(found.lines, listed), LAMBDA mined :
  Then(abstractBullets(found.abstract, mined), LAMBDA derived :
  Then(pad(clauseBullets(found.abstract, derived)), LAMBDA bullets :
    IF Len(lines) = 0 THEN Threw
    ELSE IF ~nonEmpty(first.abstractLine) THEN Threw
    ELSE IF ~nonEmpty(found.abstract) THEN Threw
    ELSE [threw |-> FALSE, abstract |-> found.abstract, bullets |-> SubSeq(bullets, 1, 3),
          translatedTitle |-> title.translatedTitle])))))))))

\* ---------------------------------------------------- fallbackSummarise
\* enforceCharLimit(value, maxChars): value when it fits; else its first
\* maxChars symbols up to their last sentence end, when that end is at or
\* after 60% of maxChars; else value.
enforceCharLimit(value, maxChars) ==
  LET soft == SubSeq(value, 1, Least(maxChars, Len(value)))
      ends == {k \in 1..Len(soft) : soft[k] = "." /\ (k = Len(soft) \/ soft[k + 1] = "_")}
      dots == {k \in 1..Len(soft) : soft[k] = "."}
      \* soft.lastIndexOf(sentenceBoundary[0]), counted from 0
      idx == (CHOOSE k \in dots : \A j \in dots : j <= k) - 1
  IN IF chars(value) <= maxChars THEN value
     ELSE IF ends # {} /\ idx >= (maxChars * 6) \div 10 THEN trim(SubSeq(soft, 1, idx + 1))
     ELSE value

\* fallbackSummarise(input): "R" and "C" are the two fixed sentences of the
\* abstract, "F", "G" and "S" the fixed texts of the bullets, "n" the words
\* "lien non communiqué".
fallbackSummarise(input) ==
  [threw |-> FALSE,
   abstract |-> enforceCharLimit(<<"R", ".", "_", "C", ":", "_">> \o input.title \o <<".">>,
                                 input.maxChars),
   bullets |-> <<<<"F", ".">>, <<"G", ".">>,
                 <<"S", ":", "_">> \o (IF nonEmpty(input.url) THEN input.url ELSE <<"n">>)>>,
   translatedTitle |-> <<>>]

\* The lines a response is made of.
ResponseLines ==
  {<<"L", ":", "_", "a", ".">>,
   <<"L", ":">>,
   <<"T", ":", "_", "c">>,
   <<"-", "_", "b">>,
   <<"1", ".", "_", "c">>,
   <<"-">>,
   <<"a", ".", "_", "b", ".">>,
   <<"a", ";", "1", ".", ";">>,
   <<"w", ",", "_", "w", "-", "_", "a">>,
   <<"_">>}

MaxLines == 3

\* The inputs of fallbackSummarise; maxChars is max_chars_per_summary.
SummariseInputs ==
  [title : {<<>>, <<"a">>, <<"a", ".", "_", "b">>}, url : {<<>>, <<"u">>},
   maxChars : {3, 8, 100}]

NoInput == [title |-> <<>>, url |-> <<>>, maxChars |-> 0]
NoSummary == [threw |-> FALSE, abstract |-> <<>>, bullets |-> <<>>, translatedTitle |-> <<>>]

ParseVarsInit ==
  /\ parseCall \in {"parse", "fallback"}
  /\ parseRaw \in (IF parseCall = "parse" THEN SeqsUpTo(ResponseLines, MaxLines) ELSE {<<>>})
  /\ parseInput \in (IF parseCall = "fallback" THEN SummariseInputs ELSE {NoInput})
  /\ parseDone = FALSE
  /\ summary = NoSummary

ParseVarsIdle ==
  /\ parseCall = "parse"
  /\ parseRaw = <<>>
  /\ parseInput = NoInput
  /\ parseDone = FALSE
  /\ summary = NoSummary

\* parseOpenCodeOutput(cleaned) returns or throws.
ParseResponse ==
  /\ parseCall = "parse"
  /\ ~parseDone
  /\ parseDone' = TRUE
  /\ summary' = parseOpenCodeOutput(parseRaw)
  /\ UNCHANGED <<parseCall, parseRaw, parseInput>>
  /\ UNCHANGED pOther

\* fallbackSummarise(input) returns.
FallbackSummary ==
  /\ parseCall = "fallback"
  /\ ~parseDone
  /\ parseDone' = TRUE
  /\ summary' = fallbackSummarise(parseInput)
  /\ UNCHANGED <<parseCall, parseRaw, parseInput>>
  /\ UNCHANGED pOther

ParseNext == ParseResponse \/ FallbackSummary

\* ------------------------------------------------ oc-client.ts: ensureClient
MaxCallers == 3
MaxCreations == 3
Callers == 1..MaxCallers

afterCreation_Keeps(wrapper, cached) == cached

\* const wrapper = await clientPromise; if (!wrapper) { clientPromise = null; }
\* What clientPromise holds after the creator has resumed.
afterCreation(wrapper, cached) == IF wrapper = "null" THEN 0 ELSE cached

ClientVarsInit ==
  /\ clientPromise = 0
  /\ promises = <<>>
  /\ callerPc = [c \in Callers |-> "idle"]
  /\ callerPromise = [c \in Callers |-> 0]
  /\ callerResult = [c \in Callers |-> "none"]

ClientVarsIdle ==
  /\ clientPromise = 0
  /\ promises = <<>>
  /\ callerPc = <<>>
  /\ callerPromise = <<>>
  /\ callerResult = <<>>

\* warmupClient or requestCompletion calls ensureClient: it returns the cached
\* promise, or starts a creation, caches its promise and awaits it.
EnsureClient(c) ==
  /\ callerPc[c] = "idle"
  /\ clientPromise = 0 => Len(promises) < MaxCreations
  /\ IF clientPromise # 0
       THEN /\ callerPc' = [callerPc EXCEPT ![c] = "waiter"]
            /\ callerPromise' = [callerPromise EXCEPT ![c] = clientPromise]
            /\ UNCHANGED <<clientPromise, promises>>
       ELSE /\ promises' = Append(promises, "pending")
            /\ clientPromise' = Len(promises) + 1
            /\ callerPc' = [callerPc EXCEPT ![c] = "creator"]
            /\ callerPromise' = [callerPromise EXCEPT ![c] = Len(promises) + 1]
  /\ UNCHANGED callerResult
  /\ UNCHANGED eOther

\* The creation ends: with a wrapper, or with null (createOpencode missing, or
\* the import or createOpencode threw).
CreationSettles(k, outcome) ==
  /\ promises[k] = "pending"
  /\ promises' = [promises EXCEPT ![k] = outcome]
  /\ UNCHANGED <<clientPromise, callerPc, callerPromise, callerResult>>
  /\ UNCHANGED eOther

\* The creator resumes after its await.
CreatorResumes(c) ==
  /\ callerPc[c] = "creator"
  /\ promises[callerPromise[c]] # "pending"
  /\ clientPromise' = afterCreation(promises[callerPromise[c]], clientPromise)
  /\ callerPc' = [callerPc EXCEPT ![c] = "returned"]
  /\ callerResult' = [callerResult EXCEPT ![c] = promises[callerPromise[c]]]
  /\ UNCHANGED <<promises, callerPromise>>
  /\ UNCHANGED eOther

\* A caller that was given the cached promise resumes.
WaiterResumes(c) ==
  /\ callerPc[c] = "waiter"
  /\ promises[callerPromise[c]] # "pending"
  /\ callerPc' = [callerPc EXCEPT ![c] = "returned"]
  /\ callerResult' = [callerResult EXCEPT ![c] = promises[callerPromise[c]]]
  /\ UNCHANGED <<clientPromise, promises, callerPromise>>
  /\ UNCHANGED eOther

\* The caller returns to its own code and may call again.
CallerCallsAgain(c) ==
  /\ callerPc[c] = "returned"
  /\ callerPc' = [callerPc EXCEPT ![c] = "idle"]
  /\ callerPromise' = [callerPromise EXCEPT ![c] = 0]
  /\ callerResult' = [callerResult EXCEPT ![c] = "none"]
  /\ UNCHANGED <<clientPromise, promises>>
  /\ UNCHANGED eOther

ClientNext ==
  \/ \E c \in Callers : EnsureClient(c)
  \/ \E k \in 1..Len(promises), outcome \in {"client", "null"} : CreationSettles(k, outcome)
  \/ \E c \in Callers : CreatorResumes(c)
  \/ \E c \in Callers : WaiterResumes(c)
  \/ \E c \in Callers : CallerCallsAgain(c)

\* ---------------------------------------------- build-edition.ts: runPool
MaxPoolItems == 4
\* Values of SUMMARY_CONCURRENCY and FEED_CONCURRENCY, in halves: Number(v) of
\* "1", "1.5", "2", "2.5", which Math.min(v, 10) and Math.min(v, 16) keep.
PoolConcurrency == {2, 3, 4, 5}

\* const limit = Math.max(1, concurrency), in halves
poolLimit(c) == IF c < 2 THEN 2 ELSE c

\* for (let i = 0; i < Math.min(limit, size); i++): the number of passes
pumpCount(c, size) ==
  CHOOSE k \in 0..size :
    /\ 2 * k >= Least(poolLimit(c), 2 * size)
    /\ \A j \in 0..size : 2 * j >= Least(poolLimit(c), 2 * size) => k <= j

PoolVarsInit ==
  /\ poolSize \in 0..MaxPoolItems
  /\ concurrency \in PoolConcurrency
  /\ poolPhase = "idle"
  /\ cursor = 0
  /\ runners = <<>>
  /\ workerCalls = <<>>
  /\ workerDone = {}

PoolVarsIdle ==
  /\ poolSize = 0
  /\ concurrency = 2
  /\ poolPhase = "idle"
  /\ cursor = 0
  /\ runners = <<>>
  /\ workerCalls = <<>>
  /\ workerDone = {}

\* runPool is called: it returns at once for no items; otherwise each pump it
\* creates runs to its first await, taking cursor++ and calling the worker.
RunPool ==
  /\ poolPhase = "idle"
  /\ IF poolSize = 0
       THEN /\ poolPhase' = "resolved"
            /\ UNCHANGED <<cursor, runners, workerCalls>>
       ELSE LET n == pumpCount(concurrency, poolSize) IN
            /\ poolPhase' = "running"
            /\ runners' = [i \in 1..n |-> i - 1]
            /\ workerCalls' = [i \in 1..n |-> i - 1]
            /\ cursor' = n
  /\ UNCHANGED <<poolSize, concurrency, workerDone>>
  /\ UNCHANGED rOther

\* The worker a pump awaits finishes: the pump takes cursor++ and calls the
\* worker with it, or breaks.
PumpResumes(r) ==
  /\ poolPhase = "running"
  /\ runners[r] >= 0
  /\ workerDone' = workerDone \cup {runners[r]}
  /\ cursor' = cursor + 1
  /\ IF cursor >= poolSize
       THEN /\ runners' = [runners EXCEPT ![r] = -1]
            /\ UNCHANGED workerCalls
       ELSE /\ runners' = [runners EXCEPT ![r] = cursor]
            /\ workerCalls' = Append(workerCalls, cursor)
  /\ UNCHANGED <<poolSize, concurrency, poolPhase>>
  /\ UNCHANGED rOther

\* await Promise.all(runners) resumes once every pump has broken.
PoolResolves ==
  /\ poolPhase = "running"
  /\ \A r \in 1..Len(runners) : runners[r] = -1
  /\ poolPhase' = "resolved"
  /\ UNCHANGED <<poolSize, concurrency, cursor, runners, workerCalls, workerDone>>
  /\ UNCHANGED rOther

PoolNext ==
  \/ RunPool
  \/ \E r \in 1..Len(runners) : PumpResumes(r)
  \/ PoolResolves

\* ------------------------------------- build-edition.ts: hydration caps
\* Values of an environment variable ("unset": not set) and Number(v) of those
\* that are finite numbers ("abc" gives NaN, "" gives 0).
CapEnv == {"unset", "abc", "", "-1", "0", "1", "2", "3", "4", "12", "13"}
CapNumber ==
  ("" :> 0) @@ ("-1" :> -1) @@ ("0" :> 0) @@ ("1" :> 1) @@ ("2" :> 2) @@ ("3" :> 3)
    @@ ("4" :> 4) @@ ("12" :> 12) @@ ("13" :> 13)

\* if (Number.isFinite(v) && v >= 1) return Math.min(v, most); return preset;
resolveCap(env, most, preset) ==
  IF env \in DOMAIN CapNumber /\ CapNumber[env] >= 1
    THEN Least(CapNumber[env], most)
    ELSE preset

HYDRATE_CONCURRENCY(env) == resolveCap(env, 12, 6)
HYDRATE_PER_DOMAIN_CONCURRENCY(env) == resolveCap(env, 3, 1)

CapsVarsInit ==
  /\ envHydrate \in CapEnv
  /\ envPerDomain \in CapEnv
  /\ capsLoaded = FALSE
  /\ capG = 0
  /\ capH = 0

CapsVarsIdle ==
  /\ envHydrate = "unset"
  /\ envPerDomain = "unset"
  /\ capsLoaded = FALSE
  /\ capG = 0
  /\ capH = 0

\* The module is evaluated: the two constants are resolved.
ModuleLoad ==
  /\ ~capsLoaded
  /\ capsLoaded' = TRUE
  /\ capG' = HYDRATE_CONCURRENCY(envHydrate)
  /\ capH' = HYDRATE_PER_DOMAIN_CONCURRENCY(envPerDomain)
  /\ UNCHANGED <<envHydrate, envPerDomain>>
  /\ UNCHANGED cOther

CapsNext == ModuleLoad

\* ------------------------------------------- summariseWithOC: the backoff
baseDelay == 500

\* Math.random(), in thousandths: a number of [0, 1).
RandomScale == 1000
Randoms == {0, 250, 500, 750, 999}

\* Math.round of the fraction n / d (n >= 0): the nearest integer, halves up.
round(n, d) == (2 * n + d) \div (2 * d)

backoffDelay_Doubled(failed, random) ==
  LET base == baseDelay * 2^failed
  IN round(base * (11 * RandomScale + 2 * random), 10 * RandomScale)

\* delay = Math.round(base + jitter), base = baseDelay * Math.pow(2, attempt - 1),
\* jitter = base * (0.1 + Math.random() * 0.2): base * (1.1 + 0.2 * random),
\* after the attempt that failed.
backoffDelay(failed, random) ==
  LET base == baseDelay * 2^(failed - 1)
  IN round(base * (11 * RandomScale + 2 * random), 10 * RandomScale)

BackoffVarsInit ==
  /\ bRetriesEnv \in SummaryRetriesEnv \cup {"5"}
  /\ bAttempt = 1
  /\ bPc = "request"
  /\ bVia = "none"
  /\ bDelays = <<>>

BackoffVarsIdle ==
  /\ bRetriesEnv = "unset"
  /\ bAttempt = 0
  /\ bPc = "returned"
  /\ bVia = "none"
  /\ bDelays = <<>>

\* The request of the current attempt settles: a summary that parses is
\* returned; otherwise the timer is set when attempt < maxAttempts, and the
\* loop ends and fallbackSummarise is returned when not.
BackoffAttemptFails(behaviour, random) ==
  /\ bPc = "request"
  /\ attemptOutcome(withTimeout(requestCompletion(behaviour))) # "success"
  /\ IF retryAllowed(bAttempt, maxAttempts(bRetriesEnv))
       THEN /\ bDelays' = Append(bDelays, [after |-> bAttempt,
                                           ms |-> backoffDelay(bAttempt, random)])
            /\ bPc' = "backoff"
            /\ UNCHANGED bVia
       ELSE /\ bPc' = "returned"
            /\ bVia' = "fallback"
            /\ UNCHANGED bDelays
  /\ UNCHANGED <<bRetriesEnv, bAttempt>>
  /\ UNCHANGED bOther

BackoffAttemptSucceeds ==
  /\ bPc = "request"
  /\ attemptOutcome(withTimeout(requestCompletion("text"))) = "success"
  /\ bPc' = "returned"
  /\ bVia' = "opencode"
  /\ UNCHANGED <<bRetriesEnv, bAttempt, bDelays>>
  /\ UNCHANGED bOther

\* The timer fires: the loop goes round and attempt++.
BackoffTimerFires ==
  /\ bPc = "backoff"
  /\ bAttempt' = bAttempt + 1
  /\ bPc' = "request"
  /\ UNCHANGED <<bRetriesEnv, bVia, bDelays>>
  /\ UNCHANGED bOther

BackoffNext ==
  \/ \E behaviour \in ServiceBehaviours, random \in Randoms : BackoffAttemptFails(behaviour, random)
  \/ BackoffAttemptSucceeds
  \/ BackoffTimerFires

\* ------------------------------------------------------------------ main
MIN_VALID_ARTICLES == 5
MAX_BRIEFING_ATTEMPTS == 2
\* maxLookback of loadFallbackEdition
LOOKBACK_DAYS == 3
\* Thresholds of runEditorialValidation.
SUMMARY_MIN_WORDS == 1000
SUMMARY_MAX_WORDS == 1400
TOTAL_MIN_WORDS == 2800
TOTAL_MAX_WORDS == 3600
MIN_DISTINCT_FEEDS == 6

loadFallbackEdition_ExtraDay(prior, maxLookback) ==
  LET found == {d \in 1..(maxLookback + 1) : d \in prior}
  IN IF found = {} THEN 0 ELSE Min(found)

\* The edition of the nearest of the maxLookback preceding dates that has one
\* (its distance in days), 0 for null.
loadFallbackEdition(prior, maxLookback) ==
  LET found == {d \in 1..maxLookback : d \in prior}
  IN IF found = {} THEN 0 ELSE Min(found)

afterFallbackWrite_NoReturn == "hydrate"

\* `return` after writeFallbackEdition: main is over.
afterFallbackWrite == "returned"

\* The checks of runEditorialValidation on the length of "Synthese du jour"
\* and on the total word count (the other checks add errors and warnings in the
\* same way).
runEditorialValidation(draft) ==
  [errors |->
     (IF draft.summaryWords < SUMMARY_MIN_WORDS \/ draft.summaryWords > SUMMARY_MAX_WORDS
        THEN <<"summary_length">> ELSE <<>>)
     \o (IF draft.wordCount < TOTAL_MIN_WORDS THEN <<"word_count_low">> ELSE <<>>),
   warnings |->
     IF draft.wordCount > TOTAL_MAX_WORDS THEN <<"word_count_high">> ELSE <<>>]

loopContinues_OneMore(a) == a <= MAX_BRIEFING_ATTEMPTS + 1

\* attempt <= MAX_BRIEFING_ATTEMPTS
loopContinues(a) == a <= MAX_BRIEFING_ATTEMPTS

\* A flag pushed as it stands, and a line of the console.
Flag(text) == [prefix |-> "", text |-> text]
LogLine(tag, prefix, text) == [tag |-> tag, prefix |-> prefix, text |-> text]

\* The absent draft (null) and the absent edition file.
NoDraft == [source |-> "null", summaryWords |-> 0, wordCount |-> 0, readingMinutes |-> 0]
NoFile == [frontmatter |-> [kind |-> "none"], sections |-> "none", stories |-> 0]

\* qaResult.errors.forEach((err) => qaFlags.push(`QA error: ${err}`))
qaErrorFlags(errors) == [k \in 1..Len(errors) |-> [prefix |-> "QA error: ", text |-> errors[k]]]

frontmatter_WithFlags(draft, nSources, flags) ==
  [kind |-> "fresh", sources |-> nSources, readingMinutes |-> draft.readingMinutes,
   wordCount |-> draft.wordCount, qaFlags |-> flags]

\* The frontmatter object of main: date, title, timezone, sources, generatedAt,
\* readingMinutes, wordCount.
frontmatter(draft, nSources, flags) ==
  [kind |-> "fresh", sources |-> nSources, readingMinutes |-> draft.readingMinutes,
   wordCount |-> draft.wordCount]

\* composeMarkdown: the YAML of the frontmatter, then the sections of the briefing.
composeMarkdown(fm, draft, nStories) ==
  [frontmatter |-> fm, sections |-> draft.source, stories |-> nStories]

\* writeFallbackEdition: the earlier edition under the target date.
fallbackMarkdown(d) ==
  [frontmatter |-> [kind |-> "fallback", from |-> d], sections |-> "copied", stories |-> 0]

\* The drafts parseBriefingJson may return for the service's answer: the origin
\* and the measures runEditorialValidation reads.
Drafts ==
  [source : {"parsed"}, summaryWords : {1200},
   wordCount : {2700, 3000, 3700}, readingMinutes : {15}]

BriefingBehaviours == {"text", "unparsable", "empty", "rejection", "silent"}

\* ----------------------------------------------------- the Seen-Set file
\* The fingerprints of articles of earlier runs, and the states of data/seen.json
\* at the start of a run: absent, a list (here of an earlier article and of the
\* first story of this run, as on a forced regeneration), or not a JSON array.
SeenFiles ==
  {[kind |-> "absent", list |-> {}],
   [kind |-> "list", list |-> {fingerprintUrl(0), fingerprintUrl(1)}],
   [kind |-> "corrupt", list |-> {}]}

\* loadSeenCache: the set of the file's list, the empty set when the file does
\* not exist (ENOENT); any other failure is thrown.
loadSeenCache(file) ==
  CASE file.kind = "list" -> [throws |-> FALSE, seen |-> file.list]
    [] file.kind = "absent" -> [throws |-> FALSE, seen |-> {}]
    [] OTHER -> [throws |-> TRUE, seen |-> {}]

\* writeSeenCache: the whole set, serialised.
writeSeenCache(seenSet) == [kind |-> "list", list |-> seenSet]

writeFallbackEdition_PersistsSeen(d, file, seenSet) ==
  [edition |-> fallbackMarkdown(d), seenFile |-> writeSeenCache(seenSet)]

\* writeFallbackEdition: what it leaves in the edition file and in seen.json.
writeFallbackEdition(d, file, seenSet) ==
  [edition |-> fallbackMarkdown(d), seenFile |-> file]

\* An external call main awaits, and whether a timer bounds the wait.
Wait(call, timer) == [call |-> call, timer |-> timer]

\* ------------------------------------------------ generateBriefingDocument
READING_WPM == 210

\* minutesForWords: Math.max(1, Math.ceil(words / READING_WPM))
minutesForWords(words) ==
  LET m == (words + READING_WPM - 1) \div READING_WPM
  IN IF m < 1 THEN 1 ELSE m

\* The lengths of the texts, in words: the sentence fallbackNarrative writes for
\* a story, and the abstract and bullets of a story's summary.
ItemNarrativeWords == 50
ItemSummaryWords == 100

\* A narrative: where its text comes from and its length.
\* fallbackNarrative: one sentence for each of the first 16 items.
fallbackNarrative(nItems) ==
  [origin |-> "items",
   words |-> IF nItems = 0 THEN 17 ELSE ItemNarrativeWords * Least(nItems, 16)]

\* The narratives the service may answer with.
ServiceNarratives == {[origin |-> "service", words |-> w] : w \in {300, 1200}}

\* A prompt: buildBriefingPrompt(items, timezone, targetWords, language) and
\* buildEditionNarrativePrompt(items, language); timezone, target words and
\* language are those of the configuration, the same during a run.
buildBriefingPrompt(nItems) == [kind |-> "briefing", items |-> nItems]
buildEditionNarrativePrompt(nItems) == [kind |-> "narrative", items |-> nItems]

\* `if (text)`: a text that is not empty.
usableText(r) == r \in {"text", "refusal", "unparsable"}

Request(kind, prompt, answer) == [kind |-> kind, prompt |-> prompt, answer |-> answer]

\* Whether the caller takes the answer of a request: the briefing that
\* parseBriefingJson accepts, the narrative that is a text.
taken(request) ==
  IF request.kind = "briefing" THEN request.answer = "text" ELSE usableText(request.answer)

generateEditionNarrative_KeepsAnswer(nItems, behaviour, serviceText) ==
  LET r == withTimeout(requestCompletion(behaviour))
  IN [narrative |-> serviceText,
      requests |-> <<Request("narrative", buildEditionNarrativePrompt(nItems), r)>>]

\* generateEditionNarrative: a fixed sentence without items; else one request,
\* whose text is the narrative; fallbackNarrative(items) when it gives none.
generateEditionNarrative(nItems, behaviour, serviceText) ==
  LET r == withTimeout(requestCompletion(behaviour))
  IN IF nItems = 0 THEN [narrative |-> [origin |-> "fixed", words |-> 20], requests |-> <<>>]
     ELSE [narrative |-> IF usableText(r) THEN serviceText ELSE fallbackNarrative(nItems),
           requests |-> <<Request("narrative", buildEditionNarrativePrompt(nItems), r)>>]

\* fallbackBriefing(items, config, narrative): synthesis is the narrative, the
\* analysis quotes up to three abstracts, the key points are the first
\* sentences of the narrative, the three other sections are fixed sentences
\* (39 words); readingMinutes counts the abstracts and bullets too.
fallbackBriefing(nItems, narrative) ==
  LET analysis == IF nItems = 0 THEN 10 ELSE 15 + 35 * Least(nItems, 3)
      keyPoints == Least(narrative.words, 60)
      coreWordCount == narrative.words + analysis + keyPoints + 39
      supplementalWords == ItemSummaryWords * nItems
  IN [source |-> "fallback", summaryWords |-> narrative.words, wordCount |-> coreWordCount,
      readingMinutes |-> minutesForWords(coreWordCount + supplementalWords)]

\* generateBriefingDocument(items, config): its outcome ("parsed": the service's
\* draft, "fallback": fallbackBriefing, "throws"), the draft and the requests it
\* sent.  config.digest.target_words is read before the try; an answer that
\* parseBriefingJson accepts is the draft; otherwise generateEditionNarrative
\* is called and fallbackBriefing formats the publishedAt of the timeline's
\* stories with toISOString, which throws on a date that does not parse.
generateBriefingDocument(nItems, targetWords, behaviour, parsed, narrBehaviour, serviceText, badDate) ==
  LET r == withTimeout(requestCompletion(behaviour))
      first == <<Request("briefing", buildBriefingPrompt(nItems), r)>>
      narr == generateEditionNarrative(nItems, narrBehaviour, serviceText)
  IN IF nItems = 0
       THEN [outcome |-> "fallback",
             draft |-> fallbackBriefing(nItems, [origin |-> "fixed", words |-> 10]),
             requests |-> <<>>]
     ELSE IF ~targetWords
       THEN [outcome |-> "throws", draft |-> NoDraft, requests |-> <<>>]
     ELSE IF r = "text"
       THEN [outcome |-> "parsed", draft |-> parsed, requests |-> first]
     ELSE IF badDate
       THEN [outcome |-> "throws", draft |-> NoDraft, requests |-> first \o narr.requests]
     ELSE [outcome |-> "fallback", draft |-> fallbackBriefing(nItems, narr.narrative),
           requests |-> first \o narr.requests]

MainVarsInit ==
  /\ pc = "load"
  /\ seenFile \in SeenFiles
  /\ mSeen = {}
  /\ seenLoads = 0
  /\ seenWrites = 0
  /\ mWaits = {}
  /\ mRequests = <<>>
  /\ draftHistory = <<>>
  /\ nPending \in 0..MaxPending
  /\ priorEditions \in SUBSET (1..PriorHorizon)
  /\ cfgTargetWords \in BOOLEAN
  /\ timelineBadDate \in (IF nPending = 0 THEN {FALSE} ELSE BOOLEAN)
  /\ hydrated = FALSE
  /\ nSummaries = 0
  /\ attempt = 0
  /\ genAttempts = 0
  /\ lastCandidate = NoDraft
  /\ briefing = NoDraft
  /\ qaResult = [warnings |-> <<>>, errors |-> <<>>]
  /\ qaHistory = <<>>
  /\ qaFlags = <<>>
  /\ mLog = {}
  /\ editionWrites = 0
  /\ editionFile = NoFile
  /\ exitCode = "none"
  /\ mThrown = "none"

MainVarsIdle ==
  /\ pc = "load"
  /\ seenFile = [kind |-> "absent", list |-> {}]
  /\ mSeen = {}
  /\ seenLoads = 0
  /\ seenWrites = 0
  /\ mWaits = {}
  /\ mRequests = <<>>
  /\ draftHistory = <<>>
  /\ nPending = 0
  /\ priorEditions = {}
  /\ cfgTargetWords = TRUE
  /\ timelineBadDate = FALSE
  /\ hydrated = FALSE
  /\ nSummaries = 0
  /\ attempt = 0
  /\ genAttempts = 0
  /\ lastCandidate = NoDraft
  /\ briefing = NoDraft
  /\ qaResult = [warnings |-> <<>>, errors |-> <<>>]
  /\ qaHistory = <<>>
  /\ qaFlags = <<>>
  /\ mLog = {}
  /\ editionWrites = 0
  /\ editionFile = NoFile
  /\ exitCode = "none"
  /\ mThrown = "none"

\* From the start of main to the end of ingestion: the configuration and the
\* Seen-Set are loaded (an unreadable seen.json goes to main's catch), the feeds
\* are fetched (rss-parser is given a timeout) and pendingStories is built.
MainLoadSeen ==
  /\ pc = "load"
  /\ seenLoads' = seenLoads + 1
  /\ LET loaded == loadSeenCache(seenFile)
     IN IF loaded.throws
          THEN /\ pc' = "exited"
               /\ exitCode' = "1"
               /\ mThrown' = "loadSeenCache"
               /\ mLog' = mLog \cup {LogLine("error", "", "")}
               /\ UNCHANGED <<mSeen, mWaits>>
          ELSE /\ pc' = "start"
               /\ mSeen' = loaded.seen
               /\ mWaits' = mWaits \cup {Wait("feed_fetch", TRUE)}
               /\ UNCHANGED <<exitCode, mThrown, mLog>>
  /\ UNCHANGED <<nPending, priorEditions, cfgTargetWords, timelineBadDate, hydrated,
                 nSummaries, attempt, genAttempts, lastCandidate, briefing, qaResult,
                 qaHistory, qaFlags, editionWrites, editionFile, seenFile, seenWrites,
                 mRequests, draftHistory>>
  /\ UNCHANGED mOther

\* From the end of ingestion to the call of hydrateArticleTexts: the marketing
\* flag, the return on no item, the MIN_VALID_ARTICLES check.
MainAfterIngest(marketingHeavy) ==
  /\ pc = "start"
  /\ LET flags1 == IF marketingHeavy /\ nPending > 0 THEN <<Flag("marketing_filtered")>> ELSE <<>>
         fb == loadFallbackEdition(priorEditions, LOOKBACK_DAYS)
     IN IF nPending = 0
          THEN /\ pc' = "returned"
               /\ mLog' = mLog \cup {LogLine("no_new_items", "", "")}
               /\ qaFlags' = flags1
               /\ UNCHANGED <<editionWrites, editionFile, seenFile>>
          ELSE IF nPending < MIN_VALID_ARTICLES
            THEN IF fb # 0
                   THEN /\ pc' = afterFallbackWrite
                        /\ mLog' = mLog \cup {LogLine("fallback_edition", "", "")}
                        /\ qaFlags' = flags1
                        /\ editionWrites' = editionWrites + 1
                        /\ editionFile' = writeFallbackEdition(fb, seenFile, mSeen).edition
                        /\ seenFile' = writeFallbackEdition(fb, seenFile, mSeen).seenFile
                   ELSE /\ pc' = "hydrate"
                        /\ mLog' = mLog \cup {LogLine("insufficient_articles", "", "")}
                        /\ qaFlags' = flags1 \o <<Flag("not_enough_articles")>>
                        /\ UNCHANGED <<editionWrites, editionFile, seenFile>>
            ELSE /\ pc' = "hydrate"
                 /\ qaFlags' = flags1
                 /\ UNCHANGED <<mLog, editionWrites, editionFile, seenFile>>
  /\ UNCHANGED <<nPending, priorEditions, cfgTargetWords, timelineBadDate, hydrated,
                 nSummaries, attempt, genAttempts, lastCandidate, briefing, qaResult,
                 qaHistory, exitCode, mThrown, mSeen, seenLoads, seenWrites, mWaits,
                 mRequests, draftHistory>>
  /\ UNCHANGED mOther

\* await hydrateArticleTexts(...): every page fetch is aborted by a timer.
MainHydrate ==
  /\ pc = "hydrate"
  /\ hydrated' = TRUE
  /\ pc' = "warmup"
  /\ mWaits' = mWaits \cup {Wait("page_fetch", TRUE)}
  /\ UNCHANGED <<nPending, priorEditions, cfgTargetWords, timelineBadDate, nSummaries,
                 attempt, genAttempts, lastCandidate, briefing, qaResult, qaHistory,
                 qaFlags, mLog, editionWrites, editionFile, exitCode, mThrown,
                 seenFile, mSeen, seenLoads, seenWrites, mRequests, draftHistory>>
  /\ UNCHANGED mOther

\* await warmupOpenCodeClient(config) settles: warmupClient awaits ensureClient
\* (the import of the SDK, createOpencode) as it is, without a timer; a failure
\* is caught by ensureClient and main goes on.
MainWarmup ==
  /\ pc = "warmup"
  /\ pc' = "summarise"
  /\ mWaits' = mWaits \cup {Wait("warmup", FALSE)}
  /\ UNCHANGED <<nPending, priorEditions, cfgTargetWords, timelineBadDate, hydrated,
                 nSummaries, attempt, genAttempts, lastCandidate, briefing, qaResult,
                 qaHistory, qaFlags, mLog, editionWrites, editionFile, exitCode, mThrown,
                 seenFile, mSeen, seenLoads, seenWrites, mRequests, draftHistory>>
  /\ UNCHANGED mOther

\* await summariseStories(...): every story's fingerprint is added to seen and
\* every request is under withTimeout; then the flags on the sources, up to the
\* briefing loop (attempt = 1).
MainSummarise(distinctFeeds, marketingSources) ==
  /\ pc = "summarise"
  /\ distinctFeeds \in 1..nPending
  /\ nSummaries' = nPending
  /\ qaFlags' = qaFlags
       \o (IF distinctFeeds < MIN_DISTINCT_FEEDS THEN <<Flag("few_sources")>> ELSE <<>>)
       \o (IF marketingSources THEN <<Flag("marketing_sources")>> ELSE <<>>)
  /\ attempt' = 1
  /\ pc' = "briefing"
  /\ mSeen' = mSeen \cup {fingerprintUrl(k) : k \in 1..nPending}
  /\ mWaits' = mWaits \cup {Wait("summary_request", TRUE)}
  /\ UNCHANGED <<nPending, priorEditions, cfgTargetWords, timelineBadDate, hydrated,
                 genAttempts, lastCandidate, briefing, qaResult, qaHistory, mLog,
                 editionWrites, editionFile, exitCode, mThrown, seenFile, seenLoads,
                 seenWrites, mRequests, draftHistory>>
  /\ UNCHANGED mOther

\* One iteration of the briefing loop: generateBriefingDocument (its requests
\* are under withTimeout), then runEditorialValidation; an exception goes to
\* main's catch (process.exit(1)).
BriefingAttempt(behaviour, parsed, narrBehaviour, serviceText) ==
  /\ pc = "briefing"
  /\ loopContinues(attempt)
  /\ genAttempts' = genAttempts + 1
  /\ LET gen == generateBriefingDocument(nSummaries, cfgTargetWords, behaviour, parsed,
                                         narrBehaviour, serviceText, timelineBadDate)
         draft == gen.draft
         qa == runEditorialValidation(draft)
     IN /\ mRequests' = mRequests \o
             [k \in 1..Len(gen.requests) |->
                [attempt |-> attempt, kind |-> gen.requests[k].kind,
                 prompt |-> gen.requests[k].prompt, taken |-> taken(gen.requests[k])]]
        /\ mWaits' = mWaits \cup {Wait(gen.requests[k].kind \o "_request", TRUE) :
                                     k \in 1..Len(gen.requests)}
        /\ IF gen.outcome = "throws"
             THEN /\ pc' = "exited"
                  /\ exitCode' = "1"
                  /\ mThrown' = "generateBriefingDocument"
                  /\ mLog' = mLog \cup {LogLine("error", "", "")}
                  /\ UNCHANGED <<attempt, lastCandidate, briefing, qaResult, qaHistory,
                                 draftHistory>>
             ELSE /\ lastCandidate' = draft
                  /\ draftHistory' = Append(draftHistory, draft)
                  /\ qaResult' = qa
                  /\ qaHistory' = Append(qaHistory, qa)
                  /\ mLog' = mLog \cup {LogLine("QA note", "", qa.warnings[k]) : k \in 1..Len(qa.warnings)}
                                  \cup {LogLine("QA error on attempt", "", qa.errors[k]) :
                                          k \in 1..Len(qa.errors)}
                  /\ UNCHANGED <<exitCode, mThrown>>
                  /\ IF Len(qa.errors) = 0
                       THEN /\ briefing' = draft
                            /\ pc' = "accept"
                            /\ UNCHANGED attempt
                       ELSE /\ attempt' = attempt + 1
                            /\ pc' = IF loopContinues(attempt + 1) THEN "briefing" ELSE "accept"
                            /\ UNCHANGED briefing
  /\ UNCHANGED <<nPending, priorEditions, cfgTargetWords, timelineBadDate, hydrated,
                 nSummaries, qaFlags, editionWrites, editionFile, seenFile, mSeen,
                 seenLoads, seenWrites>>
  /\ UNCHANGED mOther

\* After the loop: the last draft is taken when none passed, the flags are
\* completed, the edition is composed and written, then the Seen-Set is
\* written, the flags are printed and the process exits.
MainAcceptAndWrite(nSources) ==
  /\ pc = "accept"
  /\ nSources \in 1..nPending
  /\ IF briefing = NoDraft /\ lastCandidate = NoDraft
       THEN LET fb == loadFallbackEdition(priorEditions, LOOKBACK_DAYS)
            IN IF fb # 0
                 THEN /\ pc' = afterFallbackWrite
                      /\ mLog' = mLog \cup {LogLine("fallback_edition", "", "")}
                      /\ editionWrites' = editionWrites + 1
                      /\ editionFile' = writeFallbackEdition(fb, seenFile, mSeen).edition
                      /\ seenFile' = writeFallbackEdition(fb, seenFile, mSeen).seenFile
                      /\ UNCHANGED <<briefing, qaFlags, exitCode, mThrown, seenWrites>>
                 ELSE /\ pc' = "exited"
                      /\ exitCode' = "1"
                      /\ mThrown' = "qa_failed_no_fallback"
                      /\ mLog' = mLog \cup {LogLine("error", "", "")}
                      /\ UNCHANGED <<briefing, qaFlags, editionWrites, editionFile,
                                     seenFile, seenWrites>>
       ELSE LET accepted == IF briefing = NoDraft THEN lastCandidate ELSE briefing
                flags == qaFlags
                           \o (IF briefing = NoDraft THEN qaErrorFlags(qaResult.errors)
                               ELSE <<>>)
                           \o [k \in 1..Len(qaResult.warnings) |-> Flag(qaResult.warnings[k])]
            IN /\ briefing' = accepted
               /\ qaFlags' = flags
               /\ editionFile' = composeMarkdown(frontmatter(accepted, nSources, flags),
                                                 accepted, nSummaries)
               /\ editionWrites' = editionWrites + 1
               /\ seenFile' = writeSeenCache(mSeen)
               /\ seenWrites' = seenWrites + 1
               /\ mLog' = mLog \cup (IF briefing = NoDraft THEN {LogLine("qa_errors_persist", "", "")} ELSE {})
                               \cup {LogLine("QA flag", flags[k].prefix, flags[k].text) : k \in 1..Len(flags)}
                               \cup {LogLine("edition_written", "", "")}
               /\ pc' = "exited"
               /\ exitCode' = "0"
               /\ UNCHANGED mThrown
  /\ UNCHANGED <<nPending, priorEditions, cfgTargetWords, timelineBadDate, hydrated,
                 nSummaries, attempt, genAttempts, lastCandidate, qaResult, qaHistory,
                 mSeen, seenLoads, mWaits, mRequests, draftHistory>>
  /\ UNCHANGED mOther

MainNext ==
  \/ MainLoadSeen
  \/ \E marketingHeavy \in BOOLEAN : MainAfterIngest(marketingHeavy)
  \/ MainHydrate
  \/ MainWarmup
  \/ \E d \in 1..MaxPending, marketingSources \in BOOLEAN : MainSummarise(d, marketingSources)
  \/ \E b, nb \in BriefingBehaviours, parsed \in Drafts, text \in ServiceNarratives :
       BriefingAttempt(b, parsed, nb, text)
  \/ \E n \in 1..MaxPending : MainAcceptAndWrite(n)

\* ------------------------------------------------------- main: ingestion
\* The collection window [start, end) of resolveCollectionWindow, and the
\* publication times the model draws from (1 is before it, 4 is after it).
collectionWindow == [start |-> 2, end |-> 4]
Times == 1..4

\* An item of fetchFeedItems: publishedAt (parsed tells whether it parses as a
\* date, t its time), url ("" when the feed gives none) and what the host and
\* marketing filters see of it.
Item(t, parsed, url, kind) == [t |-> t, parsed |-> parsed, url |-> url, kind |-> kind]

\* The sort key of pickFreshItems: parsePublishedAt(...)?.getTime() ?? 0
sortKey(item) == IF item.parsed THEN item.t ELSE 0

\* [...items].sort((a, b) => key(b) - key(a)): stable, newest first.
RECURSIVE sortNewestFirst(_)
sortNewestFirst(items) ==
  IF Len(items) = 0 THEN <<>>
  ELSE LET rest == sortNewestFirst(Tail(items))
           x == Head(items)
           after == {k \in 1..Len(rest) : sortKey(rest[k]) <= sortKey(x)}
           pos == IF after = {} THEN Len(rest) + 1 ELSE Min(after)
       IN [k \in 1..(Len(rest) + 1) |->
             IF k < pos THEN rest[k] ELSE IF k = pos THEN x ELSE rest[k - 1]]

seenSkips_Never(ignoreSeen, hash, seen) == FALSE

\* if (!ignoreSeen && seen.has(hash)) continue
seenSkips(ignoreSeen, hash, seen) == ~ignoreSeen /\ hash \in seen

capReached_Late(n, max) == n > max

\* if (fresh.length >= max) break
capReached(n, max) == n >= max

\* The for loop of pickFreshItems from position k of the sorted list.
RECURSIVE pickLoop(_, _, _, _, _, _, _)
pickLoop(sorted, k, fresh, seen, window, max, ignoreSeen) ==
  IF k > Len(sorted) THEN fresh
  ELSE LET item == sorted[k]
           next(f) == pickLoop(sorted, k + 1, f, seen, window, max, ignoreSeen)
       IN IF item.url = "" THEN next(fresh)
          ELSE IF item.parsed /\ item.t >= window.end THEN next(fresh)
          ELSE IF item.parsed /\ item.t < window.start THEN fresh
          ELSE IF seenSkips(ignoreSeen, fingerprintUrl(item.url), seen) THEN next(fresh)
          ELSE IF capReached(Len(fresh) + 1, max) THEN Append(fresh, item)
          ELSE next(Append(fresh, item))

pickFreshItems(items, seen, window, max, ignoreSeen) ==
  pickLoop(sortNewestFirst(items), 1, <<>>, seen, window, max, ignoreSeen)

keepsItem_All(item, feedAllowsTechFocus) == TRUE

\* The filter on freshItems in the feed worker: the host must be curated, and
\* a marketing host or text is dropped unless the feed is tagged "tech focus day".
keepsItem(item, feedAllowsTechFocus) ==
  /\ item.kind # "noncurated"
  /\ feedAllowsTechFocus \/ item.kind # "curated_marketing"

hostFilter(items, feedAllowsTechFocus) ==
  LET Keep(item) == keepsItem(item, feedAllowsTechFocus) IN SelectSeq(items, Keep)

feedDeadAfter_Never(outcome) == FALSE

\* catch (error) { feedDead = true; }
feedDeadAfter(outcome) == outcome # "ok"

FeedOutcomes == {"ok", "network_error", "parse_error"}

\* The worker of the feed pool for feed idx once fetchFeedItems settled: try,
\* catch and finally.
feedWorker(feed, outcome, seen, max, force) ==
  LET feedItems == IF outcome = "ok" THEN feed.items ELSE <<>>
      picked == IF outcome = "ok"
                  THEN pickFreshItems(feedItems, seen, collectionWindow, max, force)
                  ELSE <<>>
      freshItems == hostFilter(picked, feed.techFocus)
  IN [picked |-> picked,
      result |-> [set |-> TRUE, freshItems |-> freshItems,
                  feedDead |-> feedDeadAfter(outcome), rawCount |-> Len(feedItems)],
      candidates |-> Len(picked),
      nonCurated |-> Len(SelectSeq(picked, LAMBDA it : it.kind = "noncurated")),
      marketing |-> Len(SelectSeq(picked, LAMBDA it :
                         it.kind = "curated_marketing" /\ ~feed.techFocus))]

feedOrder_Completion(n, completion) == completion

\* feedResults.forEach((result, idx) => ...): by index.
feedOrder(n, completion) == [i \in 1..n |-> i]

\* The building of pendingStories and sources from feedResults.
RECURSIVE buildPending(_, _, _)
buildPending(order, k, results) ==
  IF k > Len(order) THEN [pending |-> <<>>, sources |-> <<>>]
  ELSE LET idx == order[k]
           rest == buildPending(order, k + 1, results)
           fresh == results[idx].freshItems
       IN IF ~results[idx].set \/ Len(fresh) = 0 THEN rest
          ELSE [pending |-> [j \in 1..Len(fresh) |-> [feed |-> idx, item |-> fresh[j]]]
                              \o rest.pending,
                sources |-> <<idx>> \o rest.sources]

NoResult == [set |-> FALSE, freshItems |-> <<>>, feedDead |-> FALSE, rawCount |-> 0]

\* Items of every kind of timestamp and URL, from curated hosts.
RichItems ==
  {Item(t, TRUE, url, "curated") : t \in Times, url \in {"", "a", "b"}}
    \cup {Item(0, FALSE, url, "curated") : url \in {"", "a", "b"}}

\* Feeds of in-window items that differ by what the host and marketing filters
\* see of them.
FeedMenu ==
  LET A == Item(2, TRUE, "a", "curated")
      B == Item(3, TRUE, "b", "curated")
      N == Item(3, TRUE, "n", "noncurated")
      M == Item(2, TRUE, "m", "curated_marketing")
  IN {[items |-> <<>>, techFocus |-> FALSE],
      [items |-> <<A, B>>, techFocus |-> FALSE],
      [items |-> <<A, N>>, techFocus |-> FALSE],
      [items |-> <<M, B>>, techFocus |-> FALSE],
      [items |-> <<M, B>>, techFocus |-> TRUE]}

FeedVarsStart ==
  /\ fSeen \in {{}, {fingerprintUrl("a")}}
  /\ forceRegeneration \in BOOLEAN
  /\ fPhase = "idle"
  /\ fCursor = 0
  /\ fActive = {}
  /\ feedResults = [i \in 1..Len(fFeeds) |-> NoResult]
  /\ fPicked = [i \in 1..Len(fFeeds) |-> <<>>]
  /\ fOutcome = [i \in 1..Len(fFeeds) |-> "none"]
  /\ fOrder = <<>>
  /\ pendingStories = <<>>
  /\ sources = <<>>
  /\ totalCandidateItems = 0
  /\ nonCuratedFiltered = 0
  /\ marketingFiltered = 0

\* One feed of any items, or several feeds of in-window items.
FeedVarsInit ==
  /\ \/ /\ fFeeds \in {<<[items |-> l, techFocus |-> FALSE]>> : l \in SeqsUpTo(RichItems, MaxItems)}
        /\ fConc = 1
        /\ fMax \in 1..(MaxPerFeed + 1)
     \/ /\ fFeeds \in UNION {[1..n -> FeedMenu] : n \in 2..MaxFeeds}
        /\ fConc \in 1..MaxFeedConc
        /\ fMax \in {1, MaxPerFeed}
  /\ FeedVarsStart

FeedVarsIdle ==
  /\ fFeeds = <<>>
  /\ fConc = 1
  /\ fMax = 1
  /\ fSeen = {}
  /\ forceRegeneration = FALSE
  /\ fPhase = "idle"
  /\ fCursor = 0
  /\ fActive = {}
  /\ feedResults = <<>>
  /\ fPicked = <<>>
  /\ fOutcome = <<>>
  /\ fOrder = <<>>
  /\ pendingStories = <<>>
  /\ sources = <<>>
  /\ totalCandidateItems = 0
  /\ nonCuratedFiltered = 0
  /\ marketingFiltered = 0

\* runPool(config.feeds, FEED_CONCURRENCY, worker): min(limit, size) pumps start,
\* each worker awaits fetchFeedItems.
FeedsStart ==
  /\ fPhase = "idle"
  /\ LET size == Len(fFeeds)
         limit == IF fConc < 1 THEN 1 ELSE fConc
         started == 1..(IF limit < size THEN limit ELSE size)
     IN /\ fPhase' = IF size = 0 THEN "fetched" ELSE "running"
        /\ fCursor' = Cardinality(started)
        /\ fActive' = started
  /\ UNCHANGED <<fFeeds, fConc, fSeen, forceRegeneration, fMax, feedResults, fPicked,
                 fOutcome, fOrder, pendingStories, sources, totalCandidateItems,
                 nonCuratedFiltered, marketingFiltered>>
  /\ UNCHANGED fOther

\* fetchFeedItems of feed idx settles: the rest of the worker, then its pump
\* takes the next feed; when the last pump ends runPool resolves.
FeedSettles(idx, outcome) ==
  /\ fPhase = "running"
  /\ idx \in fActive
  /\ LET w == feedWorker(fFeeds[idx], outcome, fSeen, fMax, forceRegeneration)
         more == fCursor < Len(fFeeds)
         active1 == (fActive \ {idx}) \cup (IF more THEN {fCursor + 1} ELSE {})
     IN /\ feedResults' = [feedResults EXCEPT ![idx] = w.result]
        /\ fPicked' = [fPicked EXCEPT ![idx] = w.picked]
        /\ fOutcome' = [fOutcome EXCEPT ![idx] = outcome]
        /\ fOrder' = Append(fOrder, idx)
        /\ totalCandidateItems' = totalCandidateItems + w.candidates
        /\ nonCuratedFiltered' = nonCuratedFiltered + w.nonCurated
        /\ marketingFiltered' = marketingFiltered + w.marketing
        /\ fCursor' = IF more THEN fCursor + 1 ELSE fCursor
        /\ fActive' = active1
        /\ fPhase' = IF active1 = {} THEN "fetched" ELSE "running"
  /\ UNCHANGED <<fFeeds, fConc, fSeen, forceRegeneration, fMax, pendingStories, sources>>
  /\ UNCHANGED fOther

\* feedResults.forEach(...): pendingStories and sources are built.
BuildPendingStories ==
  /\ fPhase = "fetched"
  /\ LET built == buildPending(feedOrder(Len(fFeeds), fOrder), 1, feedResults)
     IN /\ pendingStories' = built.pending
        /\ sources' = built.sources
  /\ fPhase' = "built"
  /\ UNCHANGED <<fFeeds, fConc, fSeen, forceRegeneration, fMax, fCursor, fActive,
                 feedResults, fPicked, fOutcome, fOrder, totalCandidateItems,
                 nonCuratedFiltered, marketingFiltered>>
  /\ UNCHANGED fOther

IngestNext ==
  \/ FeedsStart
  \/ \E idx \in 1..Len(fFeeds), outcome \in FeedOutcomes : FeedSettles(idx, outcome)
  \/ BuildPendingStories

HydrateInit ==
  HydrateVarsInit /\ SummariseVarsIdle /\ MainVarsIdle /\ FeedVarsIdle /\ BackoffVarsIdle
    /\ CapsVarsIdle /\ ParseVarsIdle /\ ClientVarsIdle /\ PoolVarsIdle
SummariseInit ==
  SummariseVarsInit /\ HydrateVarsIdle /\ MainVarsIdle /\ FeedVarsIdle /\ BackoffVarsIdle
    /\ CapsVarsIdle /\ ParseVarsIdle /\ ClientVarsIdle /\ PoolVarsIdle
OrderInit ==
  OrderVarsInit /\ HydrateVarsIdle /\ MainVarsIdle /\ FeedVarsIdle /\ BackoffVarsIdle
    /\ CapsVarsIdle /\ ParseVarsIdle /\ ClientVarsIdle /\ PoolVarsIdle
Init ==
  MainVarsInit /\ HydrateVarsIdle /\ SummariseVarsIdle /\ FeedVarsIdle /\ BackoffVarsIdle
    /\ CapsVarsIdle /\ ParseVarsIdle /\ ClientVarsIdle /\ PoolVarsIdle
IngestInit ==
  FeedVarsInit /\ HydrateVarsIdle /\ SummariseVarsIdle /\ MainVarsIdle /\ BackoffVarsIdle
    /\ CapsVarsIdle /\ ParseVarsIdle /\ ClientVarsIdle /\ PoolVarsIdle
BackoffInit ==
  BackoffVarsInit /\ HydrateVarsIdle /\ SummariseVarsIdle /\ MainVarsIdle /\ FeedVarsIdle
    /\ CapsVarsIdle /\ ParseVarsIdle /\ ClientVarsIdle /\ PoolVarsIdle
CapsInit ==
  CapsVarsInit /\ HydrateVarsIdle /\ SummariseVarsIdle /\ MainVarsIdle /\ FeedVarsIdle
    /\ BackoffVarsIdle /\ ParseVarsIdle /\ ClientVarsIdle /\ PoolVarsIdle
ParseInit ==
  ParseVarsInit /\ HydrateVarsIdle /\ SummariseVarsIdle /\ MainVarsIdle /\ FeedVarsIdle
    /\ BackoffVarsIdle /\ CapsVarsIdle /\ ClientVarsIdle /\ PoolVarsIdle
ClientInit ==
  ClientVarsInit /\ HydrateVarsIdle /\ SummariseVarsIdle /\ MainVarsIdle /\ FeedVarsIdle
    /\ BackoffVarsIdle /\ CapsVarsIdle /\ ParseVarsIdle /\ PoolVarsIdle
PoolInit ==
  PoolVarsInit /\ HydrateVarsIdle /\ SummariseVarsIdle /\ MainVarsIdle /\ FeedVarsIdle
    /\ BackoffVarsIdle /\ CapsVarsIdle /\ ParseVarsIdle /\ ClientVarsIdle

SpecHydrate == HydrateInit /\ [][HydrateNext]_vars
SpecIngest == IngestInit /\ [][IngestNext]_vars

\* Each dispatched fetch eventually settles (fetchArticleContent aborts its
\* request after 10 seconds), and the call itself is made.
HydrateFairness ==
  /\ WF_vars(HydrateStart)
  /\ \A story \in 1..MaxStories :
       WF_vars(\E cleanedLong \in BOOLEAN, behaviour \in FetchBehaviours, raises \in BOOLEAN :
                 FetchSettled(story, cleanedLong, behaviour, raises))
SpecHydrateFair == HydrateInit /\ [][HydrateNext]_vars /\ HydrateFairness
SpecSummarise == SummariseInit /\ [][SummariseNext]_vars
SpecOrder == OrderInit /\ [][OrderNext]_vars
SpecBackoff == BackoffInit /\ [][BackoffNext]_vars
SpecCaps == CapsInit /\ [][CapsNext]_vars
SpecParse == ParseInit /\ [][ParseNext]_vars
SpecClient == ClientInit /\ [][ClientNext]_vars
SpecPool == PoolInit /\ [][PoolNext]_vars
Spec == Init /\ [][MainNext]_vars

\* -------------------------------------------------------------- claims

InFlightForHost(h) == {s \in hInFlight : hStories[s] = h}

C10_ExactlyOnce ==
  /\ \A i \in 1..Len(hStories) : hDispatchCount[i] <= 1
  /\ hPhase = "resolved" =>
       /\ \A i \in 1..Len(hStories) : hDispatchCount[i] = 1 /\ hText[i] # "unset"
       /\ hInFlight = {}
       /\ hQueue = <<>>

C10_Witness ==
  /\ hPhase = "resolved"
  /\ Len(hStories) >= 3
  /\ hCapG = 1
  /\ \E i \in 1..Len(hStories) : hText[i] = ""

\* C2: the NarrativeItem list left by summariseStories equals, for every order
\* of completions, the list obtained when the tasks complete in submission
\* order (each story pushed in turn, then the same sort).
InSubmissionOrder ==
  finalSort([i \in 1..Len(sStories) |-> NarrativeItem(i, sResult[i])])

C2_OrderStable == sPhase = "done" => narrativeStories = InSubmissionOrder

\* C3: every call of summariseWithOC follows Attempt(n) -> Success |
\* Attempt(n+1) | Fallback: between 1 and max requests, a further request only
\* after a failed attempt n < max, no request once a result is returned, the
\* fallback only when the max-th attempt fails.
C3_Inv ==
  \A i \in 1..Len(sStories) :
    LET max == maxAttempts(sRetriesEnv)
    IN /\ sReqs[i] <= max
       /\ sPc[i] = "request" => sReqs[i] >= 1 /\ sReqs[i] = sFails[i] + 1
       /\ sPc[i] = "backoff" => sReqs[i] = sFails[i] /\ sFails[i] < max
       /\ sPc[i] = "returned" => sResult[i] \in {"opencode", "fallback"}

C3_Step ==
  \A i \in 1..Len(sStories) :
    LET max == maxAttempts(sRetriesEnv)
    IN /\ sReqs'[i] > sReqs[i] =>
            /\ sResult[i] = "none"
            /\ sReqs'[i] = sReqs[i] + 1
            /\ \/ sPc[i] = "idle"
               \/ sPc[i] = "backoff" /\ sFails[i] = sReqs[i] /\ sReqs[i] < max
       /\ sResult[i] = "none" /\ sResult'[i] = "fallback" =>
            sPc[i] = "request" /\ sReqs[i] = max /\ sFails[i] + 1 = max
       /\ sResult[i] = "none" /\ sResult'[i] = "opencode" =>
            sPc[i] = "request" /\ sReqs[i] <= max /\ sFails[i] + 1 = sReqs[i]
       /\ sResult[i] # "none" => sResult'[i] = sResult[i] /\ sReqs'[i] = 0

C4_Totality ==
  /\ sPhase # "threw"
  /\ \A i \in 1..Len(sStories) : sPushed[i] <= 1
  /\ sPhase = "done" =>
       /\ Len(narrativeStories) = Len(sStories)
       /\ \A i \in 1..Len(sStories) :
            /\ sPushed[i] = 1
            /\ sResult[i] \in {"opencode", "fallback"}
            /\ \E k \in 1..Len(narrativeStories) :
                 narrativeStories[k] = NarrativeItem(i, sResult[i])

C4_Witness ==
  /\ sPhase = "done"
  /\ \E i, j \in 1..Len(sStories) : sResult[i] = "fallback" /\ sResult[j] = "opencode"


\* ------------------------------------------------------------ main: claims
Logged(tag) == \E l \in mLog : l.tag = tag
InFlags(f) == \E k \in 1..Len(qaFlags) : qaFlags[k] = f
FreshWritten == editionFile.frontmatter.kind = "fresh"

\* C5: the briefing loop makes at most MAX_BRIEFING_ATTEMPTS generation
\* attempts; attempt n+1 is made exactly when the QA report of attempt n has
\* errors and n is below the maximum; the first draft whose report has no error
\* is accepted at once, whatever its warnings.
C5_BoundedRegeneration ==
  /\ genAttempts <= MAX_BRIEFING_ATTEMPTS
  /\ Len(qaHistory) <= genAttempts
  /\ \A k \in 1..Len(qaHistory) : k < genAttempts => Len(qaHistory[k].errors) > 0
  /\ pc = "briefing" => genAttempts = attempt - 1 /\ Len(qaHistory) = genAttempts
                        /\ attempt <= MAX_BRIEFING_ATTEMPTS
  /\ (pc \in {"accept", "exited"} /\ mThrown = "none" /\ genAttempts > 0) =>
       /\ Len(qaHistory) = genAttempts
       /\ IF Len(qaHistory[genAttempts].errors) = 0
            THEN briefing = lastCandidate /\ briefing # NoDraft
            ELSE genAttempts = MAX_BRIEFING_ATTEMPTS

C5_Witness ==
  /\ pc = "exited" /\ exitCode = "0"
  /\ genAttempts = 2
  /\ Len(qaHistory[1].errors) > 0
  /\ Len(qaHistory[2].errors) = 0
  /\ Len(qaHistory[2].warnings) > 0

AttemptsExhausted ==
  /\ pc = "exited" /\ mThrown = "none"
  /\ Len(qaHistory) = MAX_BRIEFING_ATTEMPTS
  /\ Len(qaHistory[MAX_BRIEFING_ATTEMPTS].errors) > 0

\* The QA warnings an edition file carries.
EditionQAWarnings(file) ==
  IF "qaFlags" \in DOMAIN file.frontmatter THEN file.frontmatter.qaFlags ELSE <<>>

C7_SynthesisNeverRaises == mThrown # "generateBriefingDocument"

NoEditionInWindow == priorEditions \cap (1..LOOKBACK_DAYS) = {}
\* Ingestion is over and main is past its checks on pendingStories.
PastIngestion == pc \notin {"load", "start"} /\ mThrown # "loadSeenCache"

C9_SingleCompleteWrite ==
  /\ editionWrites <= 1
  /\ editionWrites = 0 <=> editionFile = NoFile
  /\ FreshWritten =>
       /\ hydrated
       /\ nPending > 0 /\ nSummaries = nPending
       /\ editionFile.stories = nPending
       /\ briefing # NoDraft /\ briefing = lastCandidate
       /\ editionFile.sections = briefing.source
  /\ Logged("no_new_items") => editionWrites = 0
  /\ mThrown # "none" => editionWrites = 0
  /\ exitCode = "1" => editionWrites = 0

C9_Witness ==
  /\ pc = "exited" /\ exitCode = "0"
  /\ editionWrites = 1
  /\ FreshWritten
  /\ nSummaries = MIN_VALID_ARTICLES


\* ------------------------------------------------------ hydration: C11, C12
\* C11: hydrateArticleTexts terminates for every list of stories, every
\* assignment to hosts and every pair of caps, provided each fetch settles:
\* while it runs, some fetch is in flight (no stall), what is neither queued nor
\* in flight is completed, and the promise is eventually resolved.
C11_Terminates ==
  /\ [](hPhase = "running" =>
          /\ hInFlight # {}
          /\ hCompleted + Cardinality(hInFlight) + Len(hQueue) = Len(hStories))
  /\ <>(hPhase = "resolved")

C11_Witness ==
  /\ hPhase = "resolved"
  /\ Len(hStories) = MaxStories
  /\ hCompleted = MaxStories
  /\ \A i, j \in 1..Len(hStories) : hStories[i] = hStories[j]
  /\ hCapH < hCapG

\* C12: a story whose embedded content is short and whose hydration fails
\* (the fetch gives no content, or the text resolution raises) has its embedded
\* content as text after hydration, and hydration does not throw.
C12_OriginalTextRetained ==
  \A i \in 1..Len(hStories) :
    hFetch[i] \in {"failed", "raised"} => hText[i] = "embedded"


\* ------------------------------------------------------ ingestion: C13..C18
Count(seq, x) == Cardinality({k \in 1..Len(seq) : seq[k] = x})
InWindow(item) == item.parsed /\ collectionWindow.start <= item.t /\ item.t < collectionWindow.end
PendingOf(idx) ==
  LET sel == SelectSeq(pendingStories, LAMBDA p : p.feed = idx)
  IN [k \in 1..Len(sel) |-> sel[k].item]

\* C13: with an empty Seen-Set and a cap larger than the list, pickFreshItems
\* retains an item that has a URL exactly when its time is in [start, end) or
\* its timestamp does not parse, whatever else the feed holds.
C13_WindowFilter ==
  \A idx \in 1..Len(fFeeds) :
    (fOutcome[idx] = "ok" /\ fSeen = {} /\ fMax > Len(fFeeds[idx].items)) =>
      \A k \in 1..Len(fFeeds[idx].items) :
        LET x == fFeeds[idx].items[k]
        IN x.url # "" =>
             Count(fPicked[idx], x) =
               (IF InWindow(x) \/ ~x.parsed THEN Count(fFeeds[idx].items, x) ELSE 0)

\* C14: for every feed and every list, the fresh items retained, and the
\* feed's pending stories, are at most max_articles_per_feed.
C14_PerFeedCap ==
  \A idx \in 1..Len(fFeeds) :
    /\ Len(fPicked[idx]) <= fMax
    /\ Len(feedResults[idx].freshItems) <= fMax
    /\ Len(PendingOf(idx)) <= fMax

C14_Witness ==
  /\ fPhase = "built"
  /\ \E idx \in 1..Len(fFeeds) :
       /\ Len(PendingOf(idx)) = fMax
       /\ Cardinality({k \in 1..Len(fFeeds[idx].items) :
                         InWindow(fFeeds[idx].items[k]) /\ fFeeds[idx].items[k].url # ""
                         /\ fingerprintUrl(fFeeds[idx].items[k].url) \notin fSeen}) > fMax

\* C15: in a run that is not forced no item whose fingerprint is in the
\* Seen-Set is fresh; in a forced regeneration the Seen-Set excludes nothing.
C15_SeenSet ==
  \A idx \in 1..Len(fFeeds) :
    fOutcome[idx] = "ok" =>
      IF forceRegeneration
        THEN fPicked[idx] = pickFreshItems(fFeeds[idx].items, {}, collectionWindow, fMax, FALSE)
        ELSE /\ \A k \in 1..Len(fPicked[idx]) :
                  fingerprintUrl(fPicked[idx][k].url) \notin fSeen
             /\ \A k \in 1..Len(pendingStories) :
                  fingerprintUrl(pendingStories[k].item.url) \notin fSeen

C15_Witness ==
  /\ fPhase = "built"
  /\ forceRegeneration
  /\ \E k \in 1..Len(pendingStories) : fingerprintUrl(pendingStories[k].item.url) \in fSeen

\* C16: a feed whose fetch or parse fails is marked dead and gives no item;
\* every other feed is fetched and its items are kept, whichever feeds fail and
\* in whatever order the fetches end.
C16_DeadFeedIsolated ==
  /\ \A idx \in 1..Len(fFeeds) :
       /\ fOutcome[idx] \in {"network_error", "parse_error"} =>
            /\ feedResults[idx].set /\ feedResults[idx].feedDead
            /\ feedResults[idx].freshItems = <<>>
            /\ PendingOf(idx) = <<>>
       /\ fOutcome[idx] = "ok" =>
            /\ feedResults[idx].set /\ ~feedResults[idx].feedDead
            /\ feedResults[idx].rawCount = Len(fFeeds[idx].items)
            /\ fPhase = "built" => PendingOf(idx) = feedResults[idx].freshItems
  /\ fPhase \in {"fetched", "built"} =>
       \A idx \in 1..Len(fFeeds) : fOutcome[idx] # "none" /\ feedResults[idx].set

C16_Witness ==
  /\ fPhase = "built"
  /\ Len(fOrder) > 1
  /\ fOutcome[fOrder[1]] = "network_error"
  /\ \E idx \in 1..Len(fFeeds) : fOutcome[idx] = "ok" /\ Len(PendingOf(idx)) > 0

\* C17: pendingStories is ordered by the position of each story's feed in the
\* configuration, and within a feed as the filters left the items, for every
\* order in which the fetches complete.
C17_FeedOrder ==
  fPhase = "built" =>
    /\ \A i, j \in 1..Len(pendingStories) :
         i < j => pendingStories[i].feed <= pendingStories[j].feed
    /\ \A idx \in 1..Len(fFeeds) : PendingOf(idx) = feedResults[idx].freshItems
    /\ \A i, j \in 1..Len(sources) : i < j => sources[i] < sources[j]

C17_Witness ==
  /\ fPhase = "built"
  /\ Len(fOrder) > 1
  /\ fOrder[1] > fOrder[2]
  /\ Len(PendingOf(fOrder[1])) > 0
  /\ Len(PendingOf(fOrder[2])) > 0

PassesHostFilters(item, techFocus) ==
  item.kind = "curated" \/ (item.kind = "curated_marketing" /\ techFocus)

FeedArticleOrder(f) ==
  LET sel == SelectSeq(sStories, LAMBDA st : st.feed = f)
  IN [k \in 1..Len(sel) |-> sel[k].url]

\* C19: in the edition the items of each source's bucket are in the feed's
\* original article order, for every interleaving of the summaries' completions.
C19_BucketOrder ==
  sPhase = "done" =>
    \A f \in Feeds : [k \in 1..Len(sBuckets[f]) |-> sBuckets[f][k].url] = FeedArticleOrder(f)


\* --------------------------------------------------- summariseWithOC: C20
\* The request of some story's attempt settles in this step.
AttemptSettled == \E i \in 1..Len(sStories) : sPc[i] = "request" /\ sPc'[i] # "request"

\* C20: every summarisation attempt, whatever its outcome, increments at least
\* one of the counters of summaryMetrics.
C20_EveryAttemptCounted ==
  [][AttemptSettled => \E m \in MetricNames : summaryMetrics'[m] > summaryMetrics[m]]_vars

\* ------------------------------------------------------------------- C21
\* C21: a story whose summary parses on attempt n > 1 increments success and
\* success_after_retry by exactly 1 each and gets the provenance "opencode"
\* (Success); one that parses on attempt 1 leaves success_after_retry alone;
\* every unparsable attempt increments parse_fail by exactly 1; hence, in every
\* reachable state, success_after_retry <= success (and success counts the
\* stories summarised by the service).
C21_Inv ==
  /\ summaryMetrics["success_after_retry"] <= summaryMetrics["success"]
  /\ summaryMetrics["success"] = Cardinality({i \in 1..Len(sStories) : sResult[i] = "opencode"})

C21_Step ==
  \A i \in 1..Len(sStories) :
    /\ AttemptSettles(i, "text") =>
         /\ sResult'[i] = "opencode"
         /\ summaryMetrics'["success"] = summaryMetrics["success"] + 1
         /\ summaryMetrics'["success_after_retry"] =
              summaryMetrics["success_after_retry"] + (IF sAttempt[i] > 1 THEN 1 ELSE 0)
         /\ summaryMetrics'["parse_fail"] = summaryMetrics["parse_fail"]
    /\ AttemptSettles(i, "unparsable") =>
         /\ summaryMetrics'["parse_fail"] = summaryMetrics["parse_fail"] + 1
         /\ summaryMetrics'["success"] = summaryMetrics["success"]
         /\ summaryMetrics'["success_after_retry"] = summaryMetrics["success_after_retry"]

C21_SuccessAfterRetry == [](C21_Inv) /\ [][C21_Step]_vars

\* A single story whose attempts 1 and 2 were unparsable and whose attempt 3 parsed.
C21_Witness ==
  /\ Len(sStories) = 1
  /\ sResult[1] = "opencode"
  /\ summaryMetrics["parse_fail"] = 2
  /\ summaryMetrics["success"] = 1
  /\ summaryMetrics["success_after_retry"] = 1

\* ------------------------------------------------------------------- C22
\* C22: every summarisation attempt whose request fails by a transport error
\* (the service rejects) or by a timeout (the service stays silent) increments
\* request_error by exactly 1.
C22_RequestErrorCounted ==
  [][\A i \in 1..Len(sStories) : \A b \in {"rejection", "silent"} :
       AttemptSettles(i, b) =>
         summaryMetrics'["request_error"] = summaryMetrics["request_error"] + 1]_vars

\* ------------------------------------------------------------------- C23
\* C23: in every reachable state of summarisation, each fingerprint added to
\* the in-memory Seen-Set during the run belongs to a story whose SummaryResult
\* is assigned and whose NarrativeItem exists; and no fingerprint is ever
\* removed from the Seen-Set during a run.
C23_Inv ==
  \A fp \in sSeen \ sSeenLoaded :
    \E i \in 1..Len(sStories) :
      /\ fingerprintUrl(sStories[i].url) = fp
      /\ sResult[i] # "none"
      /\ \E k \in 1..Len(narrativeStories) : narrativeStories[k] = NarrativeItem(i, sResult[i])

C23_Step == sSeen \subseteq sSeen'

C23_SeenAfterSummary == [](C23_Inv) /\ [][C23_Step]_vars

\* A fingerprint was added while another story is still being summarised.
C23_Witness ==
  /\ sPhase = "running"
  /\ sSeen \ sSeenLoaded # {}
  /\ \E i \in sActive : sResult[i] = "none" /\ fingerprintUrl(sStories[i].url) \notin sSeen

\* ------------------------------------------------------------------- C25
\* C25: no two stories processed in the same run have the same fingerprint
\* (URL), for every set of feeds, feeds that carry the same article URL included.
C25_DistinctFingerprints ==
  fPhase = "built" =>
    \A i, j \in 1..Len(pendingStories) :
      i < j => fingerprintUrl(pendingStories[i].item.url) # fingerprintUrl(pendingStories[j].item.url)

\* ------------------------------------------------------------------- C28
\* The NarrativeItems in the order of the PendingStory list.
PendingOrder == [i \in 1..Len(sStories) |-> NarrativeItem(i, sResult[i])]

C24_Inv ==
  /\ seenLoads <= 1
  /\ pc # "load" => seenLoads = 1
  /\ seenWrites <= 1
  /\ seenWrites = 1 => FreshWritten /\ nSummaries = nPending /\ pc = "exited"
  /\ (pc \in {"returned", "exited"} /\ ~FreshWritten) => seenWrites = 0

C24_Step ==
  /\ seenLoads' # seenLoads => pc = "load"
  /\ (seenFile' # seenFile \/ seenWrites' # seenWrites) =>
       /\ pc = "accept"
       /\ nSummaries = nPending
       /\ seenWrites' = 1
       /\ editionWrites' = editionWrites + 1
       /\ editionFile'.frontmatter.kind = "fresh"
       /\ seenFile' = writeSeenCache(mSeen)

\* C24: seen.json is read once, at the start of the run, and written at most
\* once, in the step that writes the freshly generated edition, after every
\* story was summarised; no other step changes it, so a run that writes no
\* fresh edition leaves it as it was.
C24_SeenFileOnceEach == [](C24_Inv) /\ [][C24_Step]_vars

\* A run that loaded a list, summarised its stories, wrote the edition and then
\* the list with the fingerprints of the new stories added.
C24_Witness ==
  /\ pc = "exited" /\ exitCode = "0"
  /\ seenLoads = 1 /\ seenWrites = 1
  /\ FreshWritten
  /\ seenFile.kind = "list"
  /\ {fingerprintUrl(0), fingerprintUrl(MIN_VALID_ARTICLES)} \subseteq seenFile.list

\* ------------------------------------------------------------------ C26
\* C26: every wait of main on an external call (feed fetch, page fetch, client
\* warm-up, summary, briefing and narrative request) has a timer that ends it.
C26_EveryWaitTimed == \A w \in mWaits : w.timer

\* ------------------------------------------------------------------ C29
\* The requests of a briefing attempt, and the drafts the fallback path built.
RequestsOf(n) == SelectSeq(mRequests, LAMBDA q : q.attempt = n)
FallbackAttempts == {k \in 1..Len(draftHistory) : draftHistory[k].source = "fallback"}
NarrativeTaken(n) ==
  \E k \in 1..Len(mRequests) :
    mRequests[k].attempt = n /\ mRequests[k].kind = "narrative" /\ mRequests[k].taken

C27_BackoffWindow ==
  LET max == maxAttempts(bRetriesEnv)
  IN /\ \A k \in 1..Len(bDelays) :
          /\ bDelays[k].after = k
          /\ k < max
          /\ 500 * 2^(k - 1) <= bDelays[k].ms
          /\ bDelays[k].ms <= 650 * 2^(k - 1)
     /\ bPc = "backoff" => Len(bDelays) = bAttempt
     /\ bPc = "request" => Len(bDelays) = bAttempt - 1
     /\ bVia = "fallback" => bAttempt = max /\ Len(bDelays) = max - 1

\* Five attempts failed: the timers after the first and the second were at the
\* ends of their windows, and the fallback was returned without a fifth timer.
C27_Witness ==
  /\ bVia = "fallback"
  /\ bAttempt = MaxSummaryRetries
  /\ Len(bDelays) = 4
  /\ bDelays[1].ms = 550
  /\ bDelays[2].ms = 1300
  /\ bDelays[4].ms = 5199

\* ------------------------------------------------------------------ C31
\* The summary requests the service has not answered: those a worker awaits
\* and those whose timer fired.
Outstanding == Cardinality({i \in 1..Len(sStories) : sPc[i] = "request"}) + sAbandoned

\* C31: at most SUMMARY_CONCURRENCY summary requests are outstanding at the
\* service, at every instant.
C31_OutstandingBounded == Outstanding <= sConc

\* ------------------------------------------------------------------ C32
\* The full-list filter: of the list sorted newest first, the items with a URL
\* that the window rule keeps (a time in [start, end), or no time that parses)
\* and that the Seen-Set does not hold, up to the cap.
Take(seq, n) == SubSeq(seq, 1, IF n < Len(seq) THEN n ELSE Len(seq))
filterThenCap(items, seen, max, ignoreSeen) ==
  Take(SelectSeq(sortNewestFirst(items),
                 LAMBDA x : /\ x.url # ""
                            /\ (InWindow(x) \/ ~x.parsed)
                            /\ ~seenSkips(ignoreSeen, fingerprintUrl(x.url), seen)),
       max)

\* C32: the single pass of pickFreshItems, which breaks at the first item
\* before the window start, returns the items of the full-list filter.
C32_SinglePassEqualsFilter ==
  \A idx \in 1..Len(fFeeds) :
    fOutcome[idx] = "ok" =>
      fPicked[idx] = filterThenCap(fFeeds[idx].items, fSeen, fMax, forceRegeneration)

\* ------------------------------------------------------------------ C33
\* C33: for every setting of the two environment variables the resolved
\* per-host cap H is at most the resolved global cap G.
C33_HostCapWithinGlobal == capsLoaded => capH <= capG

\* ------------------------------------------------------------------ C34
\* C34: a summary that parseOpenCodeOutput or fallbackSummarise returns has an
\* abstract that is not empty and exactly three bullets, none of them empty;
\* parseOpenCodeOutput throws only for a response without a line or without
\* any text for the abstract.
C34_ThreeBullets ==
  parseDone =>
    /\ ~summary.threw =>
         /\ Len(summary.abstract) > 0
         /\ Len(summary.bullets) = 3
         /\ \A k \in 1..3 : Len(summary.bullets[k]) > 0
    /\ summary.threw =>
         /\ parseCall = "parse"
         /\ \A k \in 1..Len(parseRaw) :
              LET line == trim(parseRaw[k])
              IN \/ Len(line) = 0
                 \/ line[1] = "-"
                 \/ labelPrefix(line, "L") = Len(line)
                 \/ labelPrefix(line, "T") > 0

\* A response whose only bullet text is a semicolon list with an empty
\* segment: the list gives one bullet, the residual line and the abstract the
\* two others.
C34_Witness ==
  /\ parseDone /\ parseCall = "parse" /\ ~summary.threw
  /\ parseRaw = <<<<"L", ":", "_", "a", ".">>, <<"a", ";", "1", ".", ";">>>>
  /\ summary.bullets = <<<<"a">>, <<"a", ";", "1", ".", ";">>, <<"a", ".">>>>

\* ------------------------------------------------------------------ C35
TerminalCount(metrics) ==
  metrics["success"] + metrics["refusal_fallback"] + metrics["exhausted_fallback"]

C35_Inv ==
  TerminalCount(summaryMetrics) = Cardinality({i \in 1..Len(sStories) : sPc[i] = "returned"})

C35_Step ==
  \A i \in 1..Len(sStories) :
    /\ \A b \in ServiceBehaviours :
         AttemptSettles(i, b) =>
           /\ \A m \in {"success", "refusal_fallback", "exhausted_fallback"} :
                summaryMetrics'[m] \in {summaryMetrics[m], summaryMetrics[m] + 1}
           /\ TerminalCount(summaryMetrics') =
                TerminalCount(summaryMetrics) + (IF sPc'[i] = "returned" THEN 1 ELSE 0)
           /\ summaryMetrics'["exhausted_fallback"] # summaryMetrics["exhausted_fallback"] =>
                ~sLastRefusal[i] /\ b # "refusal"
           /\ (b = "refusal" /\ sPc'[i] = "backoff") => sLastRefusal'[i]
    /\ (sLastRefusal[i] /\ sPc'[i] \in {"request", "backoff"}) => sLastRefusal'[i]

\* C35: the call of summariseWithOC for a story increments exactly one of
\* success, refusal_fallback and exhausted_fallback, when it returns, so their
\* sum is the number of stories summarised; exhausted_fallback is incremented
\* only when no attempt of the story was a refusal.
C35_OneTerminalCounter == [](C35_Inv) /\ [][C35_Step]_vars

\* Three stories summarised, one for each terminal counter.
C35_Witness ==
  /\ sPhase = "done"
  /\ Len(sStories) = 3
  /\ summaryMetrics["success"] = 1
  /\ summaryMetrics["refusal_fallback"] = 1
  /\ summaryMetrics["exhausted_fallback"] = 1

InBucket(f, u) == Cardinality({k \in 1..Len(sBuckets[f]) : sBuckets[f][k].url = u})
InNarrative(f, u) ==
  Cardinality({k \in 1..Len(narrativeStories) :
                 narrativeStories[k].feed = f /\ narrativeStories[k].url = u})
StoriesOf(f, u) ==
  Cardinality({i \in 1..Len(sStories) : sStories[i].feed = f /\ sStories[i].url = u})

\* C37: at every instant the buckets and the NarrativeItem list hold the same
\* URLs, as many times, feed by feed; once summariseStories has returned each
\* story has given one EditionItem to the bucket of its feed and one
\* NarrativeItem.
C37_BucketsMatchNarrative ==
  /\ \A f \in Feeds, u \in Urls : InBucket(f, u) = InNarrative(f, u)
  /\ sPhase = "done" =>
       /\ \A f \in Feeds, u \in Urls : InBucket(f, u) = StoriesOf(f, u)
       /\ \A i \in 1..Len(sStories) : sPushed[i] = 1

\* Three stories of two feeds, two of them with the same URL, summarised.
C37_Witness ==
  /\ sPhase = "done"
  /\ Len(sStories) = 3
  /\ Len(sBuckets[1]) = 2 /\ Len(sBuckets[2]) = 1
  /\ InBucket(1, "u2") = 2
  /\ InNarrative(2, "u1") = 1

\* ------------------------------------------------------------------ C38
Creating == {k \in 1..Len(promises) : promises[k] = "pending"}
CreatorReturned(k) ==
  ~\E c \in Callers : callerPc[c] = "creator" /\ callerPromise[c] = k

\* C38: at most one creation is in progress; no creation is started after one
\* that succeeded; the promise of a failed creation is no longer cached once
\* its creator has resumed, and a call that finds nothing cached starts a
\* creation.
C38_Inv ==
  /\ Cardinality(Creating) <= 1
  /\ \A k \in 1..Len(promises) : promises[k] \in {"pending", "client"} => k = Len(promises)
  /\ clientPromise \in {0, Len(promises)}
  /\ \A k \in 1..Len(promises) :
       promises[k] = "null" /\ CreatorReturned(k) /\ k = Len(promises) => clientPromise = 0
C38_Step ==
  /\ Len(promises') > Len(promises) =>
       /\ Creating = {}
       /\ \A k \in 1..Len(promises) : promises[k] = "null"
  /\ \A c \in Callers :
       clientPromise = 0 /\ callerPc[c] = "idle" /\ callerPc'[c] # "idle" =>
         Len(promises') = Len(promises) + 1 /\ clientPromise' = Len(promises')
C38_SingleCreation == [](C38_Inv) /\ [][C38_Step]_vars

\* A creation failed, a later call started a second one which succeeded, and a
\* third caller was given the cached promise and got the client.
C38_Witness ==
  /\ Len(promises) = 2
  /\ promises[1] = "null" /\ promises[2] = "client"
  /\ clientPromise = 2
  /\ \E c \in Callers :
       callerPc[c] = "returned" /\ callerPromise[c] = 2 /\ callerResult[c] = "client"
  /\ \E c \in Callers : callerPc[c] = "waiter" /\ callerPromise[c] = 2

\* ------------------------------------------------------------------ C39
\* The pumps that await a worker.
WorkersInFlight == {r \in 1..Len(runners) : runners[r] >= 0}

\* C39: the worker is called once for each index, in increasing order of the
\* indices; no more than max(1, concurrency) workers are in flight; runPool
\* resolves only after every worker has finished.
C39_PoolContract ==
  /\ workerCalls = [i \in 1..Len(workerCalls) |-> i - 1]
  /\ 2 * Cardinality(WorkersInFlight) <= poolLimit(concurrency)
  /\ poolPhase = "resolved" =>
       /\ Len(workerCalls) = poolSize
       /\ workerDone = 0..(poolSize - 1)

\* The same with a whole number for concurrency.
C39_WholeConcurrency == concurrency % 2 = 0 => C39_PoolContract

====
